---- MODULE Spec2Model ----
(***************************************************************************)
(* SpeedyPaws: speed memory and settings reconciliation.                   *)
(*                                                                         *)
(* Page instances (content script: SpeedyPawsContent + SpeedController     *)
(* + OverlayUI), the popup and the background worker, all running against  *)
(* the shared chrome.storage.local record.                                 *)
(* Speeds are fixed point, in hundredths (1.0x = 100), so that the profile *)
(* values 0.75 and 1.75 and payloads with two decimals are representable.  *)
(***************************************************************************)
EXTENDS Integers, Sequences, FiniteSets, TLC

VARIABLES
    page,    \* the document: URL video id, publisher link, video elements
    ctl,     \* SpeedController fields
    app,     \* SpeedyPawsContent fields (settings snapshot included)
    store,   \* chrome.storage.local key speedyPawsSettings
    last,    \* history: the operation just performed and what it did
    steps,   \* number of operations performed so far
    probe,   \* input/output of the driver under SpecClamp
    hist,    \* history: the last two requests and the navigation in progress
    other,   \* a second page instance (tab): its page, ctl and app
    popup,   \* PopupController fields
    bg       \* background worker: its suspended async functions

vars == <<page, ctl, app, store, last, steps, probe, hist, other, popup, bg>>

----------------------------------------------------------------------------
(* Bounds *)

MaxSteps == 4         \* operations per behaviour after construction
MaxElems == 2         \* video elements the document creates
ProbeBelow == 60      \* speed inputs tried on the driver go down to -ProbeBelow
ProbeHigh == 640      \* highest speed input tried on the driver (hundredths)

----------------------------------------------------------------------------
(* Program constants, in hundredths *)

MIN_SPEED == 10
MAX_SPEED == 500
SPEED_STEP == 10
maxRetries == 10
InitialPlaybackRate == 100   \* playbackRate of a fresh HTMLVideoElement

None == "none"               \* a null string (no v= parameter, no tracked id)
Undefined == 0 - 100000      \* the number slot holds undefined
NoElement == 0               \* a null element handle
EmptyMap == [k \in {} |-> 0]  \* {}

Profiles == {"study", "chill", "review", "custom"}

DEFAULT_SETTINGS ==
    [ smartSpeedEnabled |-> FALSE,
      rememberChannel   |-> TRUE,
      rememberVideo     |-> TRUE,
      showOverlay       |-> TRUE,
      currentProfile    |-> "custom",
      defaultSpeed      |-> 100,
      profiles          |-> [study |-> 75, chill |-> 100, review |-> 175],
      channelSpeeds     |-> EmptyMap,
      videoSpeeds       |-> EmptyMap,
      overlayPosition   |-> [x |-> 20, y |-> 80] ]

----------------------------------------------------------------------------
(* Inputs *)

\* Documents the tab can show: the v= query parameter and the path segments
\* of the publisher link's href (<< >> when there is no link).
PageV1 == [videoId |-> "v1", href |-> <<"channel", "p1">>]
PageV2 == [videoId |-> "v2", href |-> <<"channel", "p1">>]
PageV3 == [videoId |-> "v3", href |-> <<"@p2">>]
PageHome == [videoId |-> None, href |-> << >>]
Locations == {PageV1, PageV2, PageV3, PageHome}

\* SET_SPEED payloads: zero, two decimals, above the range.
SpeedPayloads == {0, 137, 700}

\* Values the slider and the preset buttons of the widget produce.
WidgetSpeeds == {230}

\* Rates the site's own control sets on the element.
NativeRates == {25}

\* Partial records sent with UPDATE_SETTINGS.
UpdatePayloads ==
    { [rememberVideo |-> FALSE], [rememberChannel |-> FALSE],
      [rememberVideo |-> TRUE, rememberChannel |-> TRUE] }

\* Profile names sent with SET_PROFILE.
ProfilePayloads == {"study", "review", "custom"}

\* Documents the tab is first opened on.
InitLocations == {PageV1}

----------------------------------------------------------------------------
(* Helpers *)

Max(a, b) == IF a >= b THEN a ELSE b
Min(a, b) == IF a <= b THEN a ELSE b

\* Math.round(x / 10) for x in hundredths: round half up.
RoundTenths(x) == (x + 5) \div 10

\* obj[key] = value on a Record<string, number>
Put(map, key, value) ==
    [k \in DOMAIN map \cup {key} |-> IF k = key THEN value ELSE map[k]]

\* obj[key] read: undefined when the key is absent
Get(map, key) == IF key \in DOMAIN map THEN map[key] ELSE Undefined

\* JavaScript truthiness of a number-or-undefined
Truthy(x) == x # Undefined /\ x # 0

\* { ...a, ...b }
Merge(a, b) ==
    [k \in DOMAIN a \cup DOMAIN b |-> IF k \in DOMAIN b THEN b[k] ELSE a[k]]

----------------------------------------------------------------------------
(* Playback driver: SpeedController in content.ts.                          *)
(*                                                                         *)
(* The operators below take and return a bundle                            *)
(*   st = [page, ctl, app, store, fx]                                      *)
(* of the mutable parts of the program; fx collects what the current       *)
(* handler did (rate written to an element, notifications, messages sent,  *)
(* response), and is reset at the start of every action.                   *)

NoFx == [applied |-> Undefined, notified |-> 0, remembered |-> FALSE,
         resolved |-> Undefined, sent |-> None, resp |-> Undefined]

\* speed = Math.max(MIN_SPEED, Math.min(MAX_SPEED, speed));
\* speed = Math.round(speed * 10) / 10;
ClampRoundUnclamped(speed) == RoundTenths(speed) * 10

ClampRound(speed) ==
    RoundTenths(Max(MIN_SPEED, Min(MAX_SPEED, speed))) * 10

\* href.match(/\/(channel|c|user|@)\/([^/?]+)/): the segment that follows
\* the first of the four path words, 'unknown' when there is none.
extractChannelId(href) ==
    LET hits == { i \in 1..(Len(href) - 1) :
                    href[i] \in {"channel", "c", "user", "@"} }
    IN  IF hits = {} THEN "unknown"
        ELSE href[(CHOOSE i \in hits : \A j \in hits : i <= j) + 1]

\* VideoInfo; videoId = None stands for the null result.  channelName and
\* title are scraped text that no decision reads, and are left out.  The
\* first variant answers an identity on every page.
getVideoInfoAlways(st) ==
    [videoId |-> IF st.page.loc.videoId = None THEN "unknown"
                 ELSE st.page.loc.videoId,
     channelId |-> extractChannelId(st.page.loc.href)]

getVideoInfo(st) ==
    IF st.page.loc.videoId = None
    THEN [videoId |-> None, channelId |-> None]
    ELSE [videoId |-> st.page.loc.videoId,
          channelId |-> extractChannelId(st.page.loc.href)]

\* observers.forEach(callback => callback(currentSpeed)): the only
\* callback ever registered is the one OverlayUI.init registers, which
\* updates the widget's display.
notifyObserversRemembering(st) ==
    LET info == getVideoInfo(st)
        S == st.app.settings
        S1 == IF info.videoId # None /\ S.rememberVideo
              THEN [S EXCEPT !.videoSpeeds =
                        Put(@, info.videoId, st.ctl.currentSpeed)]
              ELSE S
    IN  [st EXCEPT !.app.settings = S1,
                   !.store = IF info.videoId # None THEN <<S1>> ELSE @,
                   !.fx.notified = @ + 1]

notifyObservers(st) ==
    IF st.app.overlay.exists
    THEN [st EXCEPT !.app.overlay.display = st.ctl.currentSpeed,
                    !.fx.notified = @ + 1]
    ELSE st

\* findVideo: querySelector, sync currentSpeed, add a ratechange listener.
\* The first variant adds no listener.
findVideoNoListener(st) ==
    LET el == st.page.attached
    IN  IF el # NoElement
        THEN [st EXCEPT !.ctl.video = el,
                        !.ctl.currentSpeed = st.page.elems[el]]
        ELSE [st EXCEPT !.ctl.video = NoElement]

findVideo(st) ==
    LET el == st.page.attached
    IN  IF el # NoElement
        THEN [st EXCEPT !.ctl.video = el,
                        !.ctl.currentSpeed = st.page.elems[el],
                        !.page.listened = @ \cup {el}]
        ELSE [st EXCEPT !.ctl.video = NoElement]

\* setSpeed(speed).  The 'ratechange' event the assignment to playbackRate
\* queues re-reads the rate just written and notifies the same observers,
\* so it is folded into this step.  The first variant takes its argument as
\* a change of the current rate.
setSpeedRelative(st, speed) ==
    LET st1 == IF st.ctl.video = NoElement THEN findVideo(st) ELSE st
        s == ClampRound(st1.ctl.currentSpeed + speed)
    IN  IF st1.ctl.video # NoElement
        THEN notifyObservers(
               [st1 EXCEPT !.page.elems[st1.ctl.video] = s,
                           !.ctl.currentSpeed = s,
                           !.fx.applied = s])
        ELSE st1

setSpeed(st, speed) ==
    LET s == ClampRound(speed)
        st1 == IF st.ctl.video = NoElement THEN findVideo(st) ELSE st
    IN  IF st1.ctl.video # NoElement
        THEN notifyObservers(
               [st1 EXCEPT !.page.elems[st1.ctl.video] = s,
                           !.ctl.currentSpeed = s,
                           !.fx.applied = s])
        ELSE st1

\* getSpeed(): refreshes the cache from the element; the value returned is
\* ctl.currentSpeed of the result.
getSpeed(st) ==
    IF st.ctl.video # NoElement
    THEN [st EXCEPT !.ctl.currentSpeed = st.page.elems[st.ctl.video]]
    ELSE st

increaseSpeed(st) == setSpeed(st, st.ctl.currentSpeed + SPEED_STEP)
decreaseSpeed(st) == setSpeed(st, st.ctl.currentSpeed - SPEED_STEP)

\* stopSmartSpeed / startSmartSpeed / setSmartSpeedEnabled:
\* ctl.smartSpeedInterval tells whether the field holds a handle, ctl.timers
\* counts the interval timers that were set and not cleared.
stopSmartSpeed(st) ==
    IF st.ctl.smartSpeedInterval
    THEN [st EXCEPT !.ctl.smartSpeedInterval = FALSE, !.ctl.timers = @ - 1]
    ELSE st

\* The first variant sets a timer whether or not the field holds a handle.
startSmartSpeedAgain(st) ==
    [st EXCEPT !.ctl.smartSpeedInterval = TRUE, !.ctl.timers = @ + 1]

startSmartSpeed(st) ==
    IF st.ctl.smartSpeedInterval THEN st
    ELSE [st EXCEPT !.ctl.smartSpeedInterval = TRUE, !.ctl.timers = @ + 1]

setSmartSpeedEnabled(st, enabled) ==
    LET st1 == [st EXCEPT !.ctl.smartSpeedEnabled = enabled]
    IN  IF enabled THEN startSmartSpeed(st1) ELSE stopSmartSpeed(st1)

\* calculateSmartSpeed(): the placeholder returns 1.0
calculateSmartSpeed == 100

\* The callback startSmartSpeed hands to setInterval.  The first variant
\* adjusts nothing.
smartSpeedTickIdle(st) == st

smartSpeedTick(st) ==
    IF st.ctl.video = NoElement \/ ~st.ctl.smartSpeedEnabled THEN st
    ELSE LET suggestedSpeed == calculateSmartSpeed
             cur == st.ctl.currentSpeed
             far == IF suggestedSpeed >= cur THEN suggestedSpeed - cur
                    ELSE cur - suggestedSpeed
         IN  IF far > 20
             THEN LET newSpeed == IF suggestedSpeed > cur
                                  THEN cur + 10 ELSE cur - 10
                  IN  setSpeed(st, RoundTenths(newSpeed) * 10)
             ELSE st

\* The callback of the controller's MutationObserver.
videoObserverCallback(st) ==
    IF st.ctl.video = NoElement \/ st.page.attached # st.ctl.video
    THEN LET st1 == findVideo(st)
         IN  IF st1.ctl.video # NoElement
             THEN setSpeed(st1, st1.ctl.currentSpeed)
             ELSE st1
    ELSE st

\* The 'ratechange' listener findVideo adds to an element.
rateChangeListener(st) ==
    IF st.ctl.video # NoElement
    THEN notifyObservers(
           [st EXCEPT !.ctl.currentSpeed = st.page.elems[st.ctl.video]])
    ELSE st

\* new OverlayUI(controller): visible, registers its display callback.
newOverlay(st) ==
    LET st1 == getSpeed(st)
    IN  [st1 EXCEPT !.app.overlay =
            [exists |-> TRUE, isVisible |-> TRUE,
             display |-> st1.ctl.currentSpeed, currentProfile |-> "custom"]]

----------------------------------------------------------------------------
(* Content coordinator: SpeedyPawsContent in content.ts *)

\* chrome.storage.local.get callback of loadSettings.  The first variant
\* keeps the built-in defaults.
loadSettingsKeepingDefaults(st) == st

loadSettings(st) ==
    IF Len(st.store) > 0
    THEN [st EXCEPT !.app.settings = Merge(DEFAULT_SETTINGS, st.store[1])]
    ELSE st

\* chrome.storage.local.set({ speedyPawsSettings: this.settings })
saveSettings(st) == [st EXCEPT !.store = <<st.app.settings>>]

\* The precedence of applyRememberedSpeed: the value handed to setSpeed.
resolveSpeedNoProfile(S, info) ==
    IF S.rememberVideo /\ Truthy(Get(S.videoSpeeds, info.videoId))
    THEN S.videoSpeeds[info.videoId]
    ELSE IF S.rememberChannel /\ Truthy(Get(S.channelSpeeds, info.channelId))
    THEN S.channelSpeeds[info.channelId]
    ELSE S.defaultSpeed

resolveSpeed(S, info) ==
    IF S.rememberVideo /\ Truthy(Get(S.videoSpeeds, info.videoId))
    THEN S.videoSpeeds[info.videoId]
    ELSE IF S.rememberChannel /\ Truthy(Get(S.channelSpeeds, info.channelId))
    THEN S.channelSpeeds[info.channelId]
    ELSE IF S.currentProfile # "custom"
    THEN S.profiles[S.currentProfile]
    ELSE S.defaultSpeed

applyRememberedSpeed(st) ==
    LET info == getVideoInfo(st)
    IN  IF info.videoId = None THEN st
        ELSE LET speedToApply == resolveSpeed(st.app.settings, info)
             IN  setSpeed([st EXCEPT !.fx.resolved = speedToApply],
                          speedToApply)

\* rememberSpeed(speed)
rememberSpeedNoFlags(st, speed) ==
    LET info == getVideoInfo(st)
    IN  IF info.videoId = None THEN st
        ELSE saveSettings(
               [st EXCEPT
                  !.app.settings.videoSpeeds = Put(@, info.videoId, speed),
                  !.app.settings.channelSpeeds = Put(@, info.channelId, speed),
                  !.app.settings.defaultSpeed = speed,
                  !.fx.remembered = TRUE])

rememberSpeed(st, speed) ==
    LET info == getVideoInfo(st)
        S == st.app.settings
    IN  IF info.videoId = None THEN st
        ELSE saveSettings(
               [st EXCEPT
                  !.app.settings.videoSpeeds =
                      IF S.rememberVideo
                      THEN Put(@, info.videoId, speed) ELSE @,
                  !.app.settings.channelSpeeds =
                      IF S.rememberChannel
                      THEN Put(@, info.channelId, speed) ELSE @,
                  !.app.settings.defaultSpeed =
                      IF S.currentProfile = "custom" THEN speed ELSE @,
                  !.fx.remembered = TRUE])

\* setProfile(profile)
setProfile(st, profile) ==
    LET st1 == [st EXCEPT !.app.settings.currentProfile = profile]
        st2 == IF profile # "custom"
               THEN setSpeed(st1, st1.app.settings.profiles[profile])
               ELSE st1
        st3 == IF st2.app.overlay.exists
               THEN [st2 EXCEPT !.app.overlay.currentProfile = profile]
               ELSE st2
    IN  saveSettings(st3)

\* updateSettings up to its await: merge, issue the storage write, suspend.
\* The first variant merges the update into the defaults.
updateSettingsOverDefaults(st, newSettings) ==
    LET st1 == [st EXCEPT !.app.settings = Merge(DEFAULT_SETTINGS, newSettings)]
    IN  [saveSettings(st1) EXCEPT !.app.pending = Append(@, newSettings)]

updateSettings(st, newSettings) ==
    LET st1 == [st EXCEPT !.app.settings = Merge(@, newSettings)]
    IN  [saveSettings(st1) EXCEPT !.app.pending = Append(@, newSettings)]

\* OverlayUI.hide / show / toggle
overlayHide(st) == [st EXCEPT !.app.overlay.isVisible = FALSE]
overlayShow(st) == [st EXCEPT !.app.overlay.isVisible = TRUE]
overlayToggle(st) ==
    IF st.app.overlay.isVisible THEN overlayHide(st) ELSE overlayShow(st)

\* updateSettings after its await
updateSettingsResume(st, newSettings) ==
    LET st1 == IF "showOverlay" \in DOMAIN newSettings
               THEN IF newSettings.showOverlay /\ ~st.app.overlay.exists
                    THEN newOverlay(st)
                    ELSE IF ~newSettings.showOverlay /\ st.app.overlay.exists
                    THEN overlayHide(st)
                    ELSE st
               ELSE st
    IN  IF "smartSpeedEnabled" \in DOMAIN newSettings
        THEN setSmartSpeedEnabled(st1, newSettings.smartSpeedEnabled)
        ELSE st1

\* toggleOverlay()
toggleOverlay(st) ==
    IF st.app.overlay.exists THEN overlayToggle(st)
    ELSE IF st.app.settings.showOverlay THEN newOverlay(st)
    ELSE st

\* handleVideoChange(); the first variant leaves out the assignment to
\* currentVideoId.
handleVideoChangeUntracked(st) ==
    LET info == getVideoInfo(st)
    IN  IF info.videoId # None /\ info.videoId # st.app.currentVideoId
        THEN [applyRememberedSpeed(st) EXCEPT !.fx.sent = info.videoId]
        ELSE st

handleVideoChange(st) ==
    LET info == getVideoInfo(st)
    IN  IF info.videoId # None /\ info.videoId # st.app.currentVideoId
        THEN [applyRememberedSpeed(
                [st EXCEPT !.app.currentVideoId = info.videoId])
              EXCEPT !.fx.sent = info.videoId]
        ELSE st

\* The callback of the coordinator's MutationObserver (URL watcher).
urlObserverCallback(st) ==
    IF st.app.watching /\ st.page.loc # st.app.lastUrl
    THEN handleVideoChange([st EXCEPT !.app.lastUrl = st.page.loc])
    ELSE st

\* handleMessage(message, sendResponse)
handleMessage(st, message) ==
    CASE message.type = "GET_SPEED" ->
           LET st1 == getSpeed(st)
           IN  [st1 EXCEPT !.fx.resp = <<[speed |-> st1.ctl.currentSpeed]>>]
      [] message.type = "SET_SPEED" ->
           [rememberSpeed(setSpeed(st, message.payload), message.payload)
              EXCEPT !.fx.resp = <<[success |-> TRUE]>>]
      [] message.type = "INCREASE_SPEED" ->
           LET st1 == getSpeed(increaseSpeed(st))
               st2 == rememberSpeed(st1, st1.ctl.currentSpeed)
           IN  [st2 EXCEPT !.fx.resp = <<[speed |-> st2.ctl.currentSpeed]>>]
      [] message.type = "DECREASE_SPEED" ->
           LET st1 == getSpeed(decreaseSpeed(st))
               st2 == rememberSpeed(st1, st1.ctl.currentSpeed)
           IN  [st2 EXCEPT !.fx.resp = <<[speed |-> st2.ctl.currentSpeed]>>]
      [] message.type = "GET_SETTINGS" ->
           [st EXCEPT !.fx.resp = <<[settings |-> st.app.settings]>>]
      [] message.type = "UPDATE_SETTINGS" ->
           [updateSettings(st, message.payload)
              EXCEPT !.fx.resp = <<[success |-> TRUE]>>]
      [] message.type = "SET_PROFILE" ->
           [setProfile(st, message.payload)
              EXCEPT !.fx.resp = <<[success |-> TRUE]>>]
      [] message.type = "TOGGLE_OVERLAY" ->
           LET st1 == toggleOverlay(st)
           IN  [st1 EXCEPT !.fx.resp =
                  <<[visible |-> st1.app.overlay.exists
                                 /\ st1.app.overlay.isVisible]>>]
      [] OTHER ->
           [st EXCEPT !.fx.resp = <<[error |-> "Unknown message type"]>>]

\* init() after waitForYouTube resolves
finishInit(st) ==
    LET st1 == IF st.app.settings.showOverlay THEN newOverlay(st) ELSE st
        st2 == [st1 EXCEPT !.app.listening = TRUE,
                           !.app.watching = TRUE,
                           !.app.lastUrl = st1.page.loc]
        st3 == applyRememberedSpeed(st2)
        st4 == setSmartSpeedEnabled(st3, st3.app.settings.smartSpeedEnabled)
    IN  [st4 EXCEPT !.app.phase = "Ready"]

\* check() of waitForYouTube.  The first variant has no cap on the number
\* of retries: it re-arms the timer for as long as no element is found.
waitCheckUncapped(st) ==
    IF st.page.attached # NoElement THEN finishInit(st)
    ELSE [st EXCEPT !.app.initRetries = Min(@ + 1, maxRetries),
                    !.app.phase = "Waiting"]

waitCheck(st) ==
    IF st.page.attached # NoElement THEN finishInit(st)
    ELSE IF st.app.initRetries < maxRetries
    THEN [st EXCEPT !.app.initRetries = @ + 1, !.app.phase = "Waiting"]
    ELSE finishInit(st)

----------------------------------------------------------------------------
(* State after construction *)

\* new SpeedController(): fields, then init() calls findVideo.
newController(pg) ==
    LET st0 == [page |-> pg,
                ctl |-> [video |-> NoElement, currentSpeed |-> 100,
                         smartSpeedEnabled |-> FALSE,
                         smartSpeedInterval |-> FALSE,
                         timers |-> 0]]
        el == pg.attached
    IN  IF el # NoElement
        THEN [st0 EXCEPT !.ctl.video = el,
                         !.ctl.currentSpeed = pg.elems[el],
                         !.page.listened = @ \cup {el}]
        ELSE st0

\* new SpeedyPawsContent(): field initialisers; init() has issued the
\* storage read of loadSettings and is suspended on it.
newContent(loc) ==
    [phase |-> "Loading",
     settings |-> DEFAULT_SETTINGS,
     overlay |-> [exists |-> FALSE, isVisible |-> FALSE,
                  display |-> Undefined, currentProfile |-> "custom"],
     currentVideoId |-> None,
     initRetries |-> 0,
     listening |-> FALSE,
     watching |-> FALSE,
     lastUrl |-> loc,
     pending |-> << >>]

\* A freshly loaded document showing loc, with or without its video
\* element already in the DOM.
newDocument(loc, hasVideo) ==
    [loc |-> loc,
     elems |-> IF hasVideo THEN <<InitialPlaybackRate>> ELSE << >>,
     attached |-> IF hasVideo THEN 1 ELSE NoElement,
     listened |-> {},
     pending |-> FALSE]

Construct(loc, hasVideo, persisted) ==
    LET c == newController(newDocument(loc, hasVideo))
    IN  [page |-> c.page, ctl |-> c.ctl, app |-> newContent(loc),
         store |-> persisted, fx |-> NoFx]

Cur == [page |-> page, ctl |-> ctl, app |-> app, store |-> store,
        fx |-> NoFx]

NoProbe == [input |-> 0, output |-> Undefined]

\* No request handled yet, no navigation in progress.
NoRequest == [op |-> "none", arg |-> 0, pre |-> DEFAULT_SETTINGS]
NoHist == [cur |-> NoRequest, prev |-> NoRequest,
           tracked |-> None, fired |-> {}, sent |-> 0, sentId |-> None,
           resolved |-> 0]

\* No second tab, the popup closed, the background worker idle.
NoInstance == [open |-> FALSE]
NoPopup == [phase |-> "closed", settings |-> DEFAULT_SETTINGS,
            currentSpeed |-> 100, outbox |-> << >>]
NoJob == [phase |-> "idle", payload |-> EmptyMap,
          current |-> DEFAULT_SETTINGS, persisted |-> << >>,
          openTabs |-> {}, queue |-> << >>, delivered |-> {}, failed |-> {},
          foreign |-> FALSE, resp |-> << >>]
\* The forward of a message of another kind, with a log of what the
\* instance it was sent to received and answered.
NoFwd == [phase |-> "idle", message |-> [type |-> "none", payload |-> 0],
          target |-> 0, got |-> << >>, resp |-> << >>]

\* The two tabs of the browser.
Tabs == {1, 2}

\* The worker and what the chrome.tabs API shows it: the foreground tab
\* (0: none with an id), each tab's URL ("site": a page of the site,
\* "offMention": another site's page whose URL contains the text
\* youtube.com, "off": any other page, "closed"), the VIDEO_CHANGED
\* messages of each tab in flight, and a log of the identity each tab
\* reported last.
NoBg == [init |-> "idle", job |-> NoJob, fwd |-> NoFwd,
         active |-> 1, tabUrl |-> [t \in Tabs |-> "site"],
         tabVideoInfo |-> EmptyMap, inflight |-> [t \in Tabs |-> << >>],
         reported |-> [t \in Tabs |-> None]]

\* The first page instance takes the result st of one of its handlers.
Apply(st, op, arg) ==
    /\ page' = st.page
    /\ ctl' = st.ctl
    /\ app' = st.app
    /\ store' = st.store
    /\ last' = [op |-> op, arg |-> arg, fx |-> st.fx]

CommitProbe(st, op, arg, cost, pr) ==
    /\ Apply(st, op, arg)
    /\ steps' = steps + cost
    /\ probe' = pr
    /\ UNCHANGED <<hist, other, popup, bg>>

Commit(st, op, arg, cost) == CommitProbe(st, op, arg, cost, probe)

Init ==
    \E loc \in InitLocations, hasVideo \in BOOLEAN :
        LET st == Construct(loc, hasVideo, << >>)
        IN  /\ page = st.page
            /\ ctl = st.ctl
            /\ app = st.app
            /\ store = st.store
            /\ last = [op |-> "construct", arg |-> 0, fx |-> NoFx]
            /\ steps = 0
            /\ probe = NoProbe
            /\ hist = NoHist
            /\ other = NoInstance
            /\ popup = NoPopup
            /\ bg = NoBg

----------------------------------------------------------------------------
(* Actions *)

\* Requests, user actions and page events count against MaxSteps; the
\* continuations of init and of updateSettings do not.
Budget == steps < MaxSteps

\* The storage read of loadSettings returns; init runs on into
\* waitForYouTube and its first check().
LoadSettings ==
    /\ app.phase = "Loading"
    /\ Commit(waitCheck(loadSettings(Cur)), "loadSettings", 0, 0)

\* setTimeout(check, 500) fires.
WaitTimer ==
    /\ app.phase = "Waiting"
    /\ Commit(waitCheck(Cur), "waitTimer", 0, 0)

\* A request from the popup or the background reaches the listener.
Requests ==
    [type : {"GET_SPEED", "INCREASE_SPEED", "DECREASE_SPEED",
             "GET_SETTINGS", "TOGGLE_OVERLAY"}, payload : {0}]
    \cup [type : {"SET_SPEED"}, payload : SpeedPayloads]
    \cup [type : {"SET_PROFILE"}, payload : ProfilePayloads]
    \cup [type : {"UPDATE_SETTINGS"}, payload : UpdatePayloads]

Request(message) ==
    /\ Budget
    /\ app.listening
    /\ Commit(handleMessage(Cur, message), message.type, message.payload, 1)

\* The storage write awaited by updateSettings completes.
UpdateSettingsResume ==
    /\ Len(app.pending) > 0
    /\ Commit(updateSettingsResume(
                 [Cur EXCEPT !.app.pending = Tail(@)], Head(app.pending)),
              "updateSettingsResume", 0, 0)

\* The site navigates in place: the URL and the publisher link change.
Navigate(loc) ==
    /\ Budget
    /\ loc # page.loc
    /\ Commit([Cur EXCEPT !.page.loc = loc], "navigate", loc.videoId, 1)

\* 'yt-navigate-finish' is dispatched on the document.
NavigateFinish ==
    /\ Budget
    /\ app.watching
    /\ Commit(handleVideoChange(Cur), "yt-navigate-finish", 0, 1)

\* The site inserts a new video element (replacing the attached one, if
\* any); the MutationObserver callbacks run in registration order.
VideoAttach ==
    /\ Budget
    /\ Len(page.elems) < MaxElems
    /\ LET st1 == [Cur EXCEPT !.page.elems = Append(@, InitialPlaybackRate),
                              !.page.attached = Len(page.elems) + 1]
       IN  Commit(urlObserverCallback(videoObserverCallback(st1)),
                  "videoAttach", 0, 1)

\* The site's own rate control sets the element's rate; 'ratechange'
\* listeners run.
NativeRateChange(r) ==
    /\ Budget
    /\ page.attached # NoElement
    /\ LET st1 == [Cur EXCEPT !.page.elems[page.attached] = r]
       IN  Commit(IF page.attached \in page.listened
                  THEN rateChangeListener(st1) ELSE st1,
                  "native", r, 1)

\* Shift+> / Shift+< outside a text-entry control.
Keyboard(dir) ==
    /\ Budget
    /\ Commit(IF dir = 1 THEN increaseSpeed(Cur) ELSE decreaseSpeed(Cur),
              "keyboard", dir, 1)

\* The widget's + / - buttons.
WidgetStep(dir) ==
    /\ Budget
    /\ app.overlay.exists /\ app.overlay.isVisible
    /\ Commit(IF dir = 1 THEN increaseSpeed(Cur) ELSE decreaseSpeed(Cur),
              "widgetStep", dir, 1)

\* The widget's slider and preset buttons.
WidgetSet(s) ==
    /\ Budget
    /\ app.overlay.exists /\ app.overlay.isVisible
    /\ Commit(setSpeed(Cur, s), "widgetSet", s, 1)

\* The tab reloads: a new document and a new content script; the store
\* is kept.
Reload(hasVideo) ==
    /\ Budget
    /\ LET st == Construct(page.loc, hasVideo, store)
       IN  Commit(st, "reload", 0, 1)

Next ==
    \/ LoadSettings
    \/ WaitTimer
    \/ \E message \in Requests : Request(message)
    \/ UpdateSettingsResume
    \/ \E loc \in Locations : Navigate(loc)
    \/ NavigateFinish
    \/ VideoAttach
    \/ \E r \in NativeRates : NativeRateChange(r)
    \/ \E dir \in {1, 0 - 1} : Keyboard(dir)
    \/ \E dir \in {1, 0 - 1} : WidgetStep(dir)
    \/ \E s \in WidgetSpeeds : WidgetSet(s)
    \/ \E hasVideo \in BOOLEAN : Reload(hasVideo)

Spec == Init /\ [][Next]_vars

----------------------------------------------------------------------------
(* The driver and the popup's clamp on a range of inputs *)

ProbeInputs == (0 - ProbeBelow)..ProbeHigh

\* PopupController.setSpeed: clamp, round, then SET_SPEED { speed }.
popupClampRound(speed) ==
    RoundTenths(Max(MIN_SPEED, Min(MAX_SPEED, speed))) * 10

\* A page with a video element, and one speed input of the range.
InitClamp ==
    \E s \in ProbeInputs :
        LET st == Construct(PageV1, TRUE, << >>)
        IN  /\ page = st.page
            /\ ctl = st.ctl
            /\ app = st.app
            /\ store = st.store
            /\ last = [op |-> "construct", arg |-> 0, fx |-> NoFx]
            /\ steps = 0
            /\ probe = [input |-> s, output |-> Undefined]
            /\ hist = NoHist
            /\ other = NoInstance
            /\ popup = NoPopup
            /\ bg = NoBg

\* controller.setSpeed(input)
ProbeSetSpeed ==
    /\ probe.output = Undefined
    /\ LET st == setSpeed(Cur, probe.input)
       IN  CommitProbe(st, "setSpeed", probe.input, 0,
                       [probe EXCEPT !.output = st.fx.applied])

\* The popup's slider/preset with the input as value, delivered to the
\* coordinator.
ProbePopupSetSpeed ==
    /\ probe.output = Undefined
    /\ app.listening
    /\ LET st == handleMessage(Cur, [type |-> "SET_SPEED",
                                     payload |-> popupClampRound(probe.input)])
       IN  CommitProbe(st, "popupSetSpeed", probe.input, 0,
                       [probe EXCEPT !.output = st.fx.applied])

NextClamp ==
    \/ LoadSettings
    \/ ProbeSetSpeed
    \/ ProbePopupSetSpeed

SpecClamp == InitClamp /\ [][NextClamp]_vars

----------------------------------------------------------------------------
(* One page instance with the history of its requests and navigations *)

MaxSeqSteps == 4      \* operations per behaviour under SpecSeq

SeqSpeedPayloads == {137, 700}
SeqUpdatePayloads ==
    {[showOverlay |-> FALSE], [rememberVideo |-> FALSE],
     [smartSpeedEnabled |-> TRUE, defaultSpeed |-> 150]}

SeqRequests ==
    [type : {"GET_SETTINGS"}, payload : {0}]
    \cup [type : {"SET_SPEED"}, payload : SeqSpeedPayloads]
    \cup [type : {"SET_PROFILE"}, payload : {"study"}]
    \cup [type : {"UPDATE_SETTINGS"}, payload : SeqUpdatePayloads]

SeqBudget == steps < MaxSeqSteps

\* The request or event now handled becomes hist.cur.
Shift(h, op, arg) ==
    [h EXCEPT !.prev = h.cur,
              !.cur = [op |-> op, arg |-> arg, pre |-> app.settings]]

\* What a navigation event did, added to the navigation in progress.
Fired(h, mechanism, fx) ==
    [h EXCEPT !.fired = @ \cup mechanism,
              !.sent = IF fx.sent # None THEN @ + 1 ELSE @,
              !.sentId = IF fx.sent # None THEN fx.sent ELSE @,
              !.resolved = IF fx.resolved # Undefined THEN @ + 1 ELSE @]

CommitSeq(st, op, arg, h) ==
    /\ Apply(st, op, arg)
    /\ steps' = steps + 1
    /\ hist' = h
    /\ UNCHANGED <<probe, other, popup, bg>>

SeqRequest(message) ==
    /\ SeqBudget
    /\ app.listening
    /\ CommitSeq(handleMessage(Cur, message), message.type, message.payload,
                 Shift(hist, message.type, message.payload))

\* The site navigates in place; the identity tracked at that moment is
\* kept for comparison.
SeqNavigate(loc) ==
    /\ SeqBudget
    /\ loc # page.loc
    /\ CommitSeq([Cur EXCEPT !.page.loc = loc], "navigate", loc.videoId,
                 [Shift(hist, "navigate", loc.videoId) EXCEPT
                     !.tracked = app.currentVideoId, !.fired = {},
                     !.sent = 0, !.sentId = None, !.resolved = 0])

\* 'yt-navigate-finish' is dispatched on the document.
SeqNavigateFinish ==
    /\ SeqBudget
    /\ app.watching
    /\ LET st == handleVideoChange(Cur)
       IN  CommitSeq(st, "yt-navigate-finish", 0,
                     Fired(Shift(hist, "yt-navigate-finish", 0),
                           {"finish"}, st.fx))

\* The site changes the DOM under document.body, inserting a new video
\* element or not; both MutationObserver callbacks run, the controller's
\* first.
SeqDomMutation(attach) ==
    /\ SeqBudget
    /\ attach => Len(page.elems) < MaxElems
    /\ LET st1 == IF attach
                  THEN [Cur EXCEPT
                          !.page.elems = Append(@, InitialPlaybackRate),
                          !.page.attached = Len(page.elems) + 1]
                  ELSE Cur
           st == urlObserverCallback(videoObserverCallback(st1))
           detected == app.watching /\ page.loc # app.lastUrl
       IN  CommitSeq(st, "domMutation", 0,
                     Fired(Shift(hist, "domMutation", 0),
                           IF detected THEN {"url"} ELSE {}, st.fx))

NextSeq ==
    \/ LoadSettings
    \/ WaitTimer
    \/ UpdateSettingsResume
    \/ \E message \in SeqRequests : SeqRequest(message)
    \/ \E loc \in Locations : SeqNavigate(loc)
    \/ SeqNavigateFinish
    \/ \E attach \in BOOLEAN : SeqDomMutation(attach)

SpecSeq == Init /\ [][NextSeq]_vars

----------------------------------------------------------------------------
(* Two page instances (tabs) sharing the store.  Tab 1 is page/ctl/app,    *)
(* tab 2 is the variable other; each runs the same content script.         *)

MaxTabSteps == 4      \* requests per behaviour under SpecTabs

TabSpeedPayloads == {150, 200}
TabUpdatePayloads == {[rememberChannel |-> FALSE]}

TabRequests ==
    [type : {"SET_SPEED"}, payload : TabSpeedPayloads]
    \cup [type : {"UPDATE_SETTINGS"}, payload : TabUpdatePayloads]

\* The content script injected into a tab showing loc.
newInstance(loc, hasVideo) ==
    LET st == Construct(loc, hasVideo, << >>)
    IN  [open |-> TRUE, page |-> st.page, ctl |-> st.ctl, app |-> st.app]

\* Tab t shows a page of the site, so the content script runs in it.
TabOpen(t) == bg.tabUrl[t] = "site" /\ (t = 1 \/ other.open)

TabCur(t) ==
    IF t = 1 THEN Cur
    ELSE [page |-> other.page, ctl |-> other.ctl, app |-> other.app,
          store |-> store, fx |-> NoFx]

\* Tab t takes the result st of one of its handlers.
TabApply(t, st, op, arg) ==
    /\ IF t = 1
       THEN /\ page' = st.page
            /\ ctl' = st.ctl
            /\ app' = st.app
            /\ UNCHANGED other
       ELSE /\ other' = [open |-> TRUE, page |-> st.page, ctl |-> st.ctl,
                         app |-> st.app]
            /\ UNCHANGED <<page, ctl, app>>
    /\ store' = st.store
    /\ last' = [op |-> op, arg |-> arg, fx |-> st.fx, tab |-> t]

CommitTab(t, st, op, arg, cost) ==
    /\ TabApply(t, st, op, arg)
    /\ steps' = steps + cost
    /\ UNCHANGED <<probe, hist, popup, bg>>

\* Both tabs open on contents of one publisher, their scripts constructed,
\* nothing persisted yet.
InitTabs ==
    LET st == Construct(PageV1, TRUE, << >>)
    IN  /\ page = st.page
        /\ ctl = st.ctl
        /\ app = st.app
        /\ store = << >>
        /\ last = [op |-> "construct", arg |-> 0, fx |-> NoFx, tab |-> 1]
        /\ steps = 0
        /\ probe = NoProbe
        /\ hist = NoHist
        /\ other = newInstance(PageV2, TRUE)
        /\ popup = NoPopup
        /\ bg = NoBg

\* The storage read of loadSettings returns in tab t; init runs on.
TabLoadSettings(t) ==
    /\ TabOpen(t)
    /\ TabCur(t).app.phase = "Loading"
    /\ CommitTab(t, waitCheck(loadSettings(TabCur(t))), "loadSettings", 0, 0)

\* A request reaches the listener of tab t.
TabRequest(t, message) ==
    /\ steps < MaxTabSteps
    /\ TabOpen(t)
    /\ TabCur(t).app.listening
    /\ CommitTab(t, handleMessage(TabCur(t), message),
                 message.type, message.payload, 1)

\* The storage write awaited by updateSettings completes in tab t.
TabUpdateSettingsResume(t) ==
    /\ TabOpen(t)
    /\ Len(TabCur(t).app.pending) > 0
    /\ LET st == TabCur(t)
       IN  CommitTab(t, updateSettingsResume(
                            [st EXCEPT !.app.pending = Tail(@)],
                            Head(st.app.pending)),
                     "updateSettingsResume", 0, 0)

NextTabs ==
    \/ \E t \in Tabs : TabLoadSettings(t)
    \/ \E t \in Tabs, message \in TabRequests : TabRequest(t, message)
    \/ \E t \in Tabs : TabUpdateSettingsResume(t)

SpecTabs == InitTabs /\ [][NextTabs]_vars

----------------------------------------------------------------------------
(* Popup: PopupController in popup.ts, next to tab 1 (the active tab).     *)
(* The operators take and return a bundle ps = [popup, store].             *)

MaxPopupSteps == 4    \* popup clicks per behaviour under SpecPopup

PopupToggles == {[rememberVideo |-> FALSE], [showOverlay |-> FALSE]}
PopupProfiles == {"study"}
PopupSpeeds == {200}

\* new PopupController(): field initialisers; init() has issued the storage
\* read of loadData and is suspended on it.
newPopup ==
    [phase |-> "loading", settings |-> DEFAULT_SETTINGS,
     currentSpeed |-> 100, outbox |-> << >>]

\* loadData: the storage read returns; GET_SPEED is sent to the tab.
popupLoadStorage(ps) ==
    [ps EXCEPT !.popup.settings =
                   IF Len(ps.store) > 0
                   THEN Merge(DEFAULT_SETTINGS, ps.store[1]) ELSE @,
               !.popup.phase = "asking"]

\* loadData: the answer to GET_SPEED (<< >> for null) arrives.
popupLoadSpeed(ps, response) ==
    [ps EXCEPT !.popup.currentSpeed =
                   IF Len(response) > 0 /\ Truthy(response[1].speed)
                   THEN response[1].speed ELSE @,
               !.popup.phase = "ready"]

\* sendToContent(message) up to its await of chrome.tabs.query
popupSendToContent(ps, message) ==
    [ps EXCEPT !.popup.outbox = Append(@, message)]

\* saveSettings()
popupSaveSettings(ps) == [ps EXCEPT !.store = <<ps.popup.settings>>]

\* setSpeed(speed)
popupSetSpeed(ps, speed) ==
    LET s == popupClampRound(speed)
    IN  popupSendToContent(
          [ps EXCEPT !.popup.currentSpeed = s,
                     !.popup.settings.currentProfile = "custom"],
          [type |-> "SET_SPEED", payload |-> s])

\* setProfile(profile)
popupSetProfile(ps, profile) ==
    LET ps1 == [ps EXCEPT !.popup.settings.currentProfile = profile,
                          !.popup.currentSpeed =
                              ps.popup.settings.profiles[profile]]
    IN  popupSendToContent(popupSaveSettings(ps1),
                           [type |-> "SET_PROFILE", payload |-> profile])

\* updateSetting(key, value), the pair given as the record [key |-> value]
popupUpdateSetting(ps, update) ==
    LET ps1 == [ps EXCEPT !.popup.settings = Merge(@, update)]
    IN  popupSendToContent(popupSaveSettings(ps1),
                           [type |-> "UPDATE_SETTINGS", payload |-> update])

PopupCur == [popup |-> popup, store |-> store]

\* tab.url?.includes('youtube.com')
SiteUrl(url) == url \in {"site", "offMention"}

\* sendToContent: the tab chrome.tabs.query({active, currentWindow}) gives,
\* when it has an id and a URL of the site; 0 when the result is null.
PopupTarget ==
    IF bg.active \in Tabs /\ SiteUrl(bg.tabUrl[bg.active])
    THEN bg.active ELSE 0

\* chrome.tabs.sendMessage(t, ...) finds a listener in tab t.
Receiver(t) == t \in Tabs /\ TabOpen(t) /\ TabCur(t).app.listening

CommitPopup(ps, op, arg, cost) ==
    /\ popup' = ps.popup
    /\ store' = ps.store
    /\ last' = [op |-> op, arg |-> arg, fx |-> NoFx, tab |-> 0]
    /\ steps' = steps + cost
    /\ UNCHANGED <<page, ctl, app, probe, hist, other, bg>>

\* The record an earlier session left after SET_SPEED {speed: 1.5} on
\* content v1 of publisher p1.
RememberedRecord ==
    [DEFAULT_SETTINGS EXCEPT !.videoSpeeds = Put(EmptyMap, "v1", 150),
                             !.channelSpeeds = Put(EmptyMap, "p1", 150),
                             !.defaultSpeed = 150]

\* One tab on a content page, its script constructed; the popup closed.
InitPopup ==
    \E persisted \in {<< >>, <<DEFAULT_SETTINGS>>, <<RememberedRecord>>} :
        LET st == Construct(PageV1, TRUE, persisted)
        IN  /\ page = st.page
            /\ ctl = st.ctl
            /\ app = st.app
            /\ store = persisted
            /\ last = [op |-> "construct", arg |-> 0, fx |-> NoFx, tab |-> 1]
            /\ steps = 0
            /\ probe = NoProbe
            /\ hist = NoHist
            /\ other = NoInstance
            /\ popup = NoPopup
            /\ bg = NoBg

\* The user opens the popup: DOMContentLoaded.
PopupOpen ==
    /\ popup.phase = "closed"
    /\ CommitPopup([PopupCur EXCEPT !.popup = newPopup], "popupOpen", 0, 0)

PopupLoadStorage ==
    /\ popup.phase = "loading"
    /\ CommitPopup(popupLoadStorage(PopupCur), "popupLoadStorage", 0, 0)

\* GET_SPEED reaches the tab's listener and is answered, or
\* chrome.runtime.lastError is set and sendToContent resolves null.
PopupLoadSpeed ==
    /\ popup.phase = "asking"
    /\ IF Receiver(PopupTarget)
       THEN LET st == handleMessage(TabCur(PopupTarget),
                                    [type |-> "GET_SPEED", payload |-> 0])
            IN  /\ popup' = popupLoadSpeed(PopupCur, st.fx.resp).popup
                /\ TabApply(PopupTarget, st, "GET_SPEED", 0)
       ELSE /\ popup' = popupLoadSpeed(PopupCur, << >>).popup
            /\ last' = [op |-> "popupLoadSpeed", arg |-> 0,
                        fx |-> [NoFx EXCEPT !.resp = << >>], tab |-> 0]
            /\ UNCHANGED <<page, ctl, app, other, store>>
    /\ UNCHANGED <<steps, probe, hist, bg>>

\* The slider or a preset button.
PopupSetSpeed(s) ==
    /\ steps < MaxPopupSteps
    /\ popup.phase = "ready"
    /\ CommitPopup(popupSetSpeed(PopupCur, s), "popupSetSpeed", s, 1)

\* A profile button.
PopupSetProfile(profile) ==
    /\ steps < MaxPopupSteps
    /\ popup.phase = "ready"
    /\ CommitPopup(popupSetProfile(PopupCur, profile),
                   "popupSetProfile", profile, 1)

\* A toggle switch.
PopupToggle(update) ==
    /\ steps < MaxPopupSteps
    /\ popup.phase = "ready"
    /\ CommitPopup(popupUpdateSetting(PopupCur, update),
                   "popupToggle", update, 1)

\* chrome.tabs.sendMessage of the oldest message in flight: the tab's
\* listener handles it, or there is no listener and it is dropped.
PopupDeliver ==
    /\ Len(popup.outbox) > 0
    /\ LET message == Head(popup.outbox)
       IN  IF Receiver(PopupTarget)
           THEN TabApply(PopupTarget,
                         handleMessage(TabCur(PopupTarget), message),
                         message.type, message.payload)
           ELSE /\ last' = [op |-> "dropped", arg |-> message.payload,
                            fx |-> [NoFx EXCEPT !.resp = << >>], tab |-> 0]
                /\ UNCHANGED <<page, ctl, app, other, store>>
    /\ popup' = [popup EXCEPT !.outbox = Tail(@)]
    /\ UNCHANGED <<steps, probe, hist, bg>>

\* The popup window closes; its messages in flight are still delivered.
PopupClose ==
    /\ steps < MaxPopupSteps
    /\ popup.phase = "ready"
    /\ CommitPopup([PopupCur EXCEPT !.popup.phase = "closed"],
                   "popupClose", 0, 1)

NextPopup ==
    \/ TabLoadSettings(1)
    \/ TabUpdateSettingsResume(1)
    \/ PopupOpen
    \/ PopupLoadStorage
    \/ PopupLoadSpeed
    \/ \E s \in PopupSpeeds : PopupSetSpeed(s)
    \/ \E profile \in PopupProfiles : PopupSetProfile(profile)
    \/ \E update \in PopupToggles : PopupToggle(update)
    \/ PopupDeliver
    \/ PopupClose

SpecPopup == InitPopup /\ [][NextPopup]_vars

----------------------------------------------------------------------------
(* Background service worker: background.ts, next to the tabs.             *)
(* The operators take and return a bundle bs = [bg, store]; bg.job is the  *)
(* UPDATE_SETTINGS handler in progress, with a log of what it did.         *)

MaxBgSteps == 3       \* requests per behaviour under SpecBg

BgUpdatePayloads == {[rememberChannel |-> FALSE], [showOverlay |-> FALSE]}
BgTabSpeeds == {150}

\* getSettings(): result.speedyPawsSettings || DEFAULT_SETTINGS
bgGetSettings(s) == IF Len(s) > 0 THEN s[1] ELSE DEFAULT_SETTINGS

\* initDefaultSettings: the storage read returns.
bgInitRead(bs) ==
    [bs EXCEPT !.bg.init = IF Len(bs.store) > 0 THEN "done" ELSE "writing"]

\* initDefaultSettings: the storage write is performed.
bgInitWrite(bs) ==
    [bs EXCEPT !.store = <<DEFAULT_SETTINGS>>, !.bg.init = "done"]

\* handleMessage, case 'UPDATE_SETTINGS': updateSettings is called and
\* suspends on the read of getSettings.
bgReceiveUpdate(bs, payload) ==
    [bs EXCEPT !.bg.job = [NoJob EXCEPT !.phase = "get", !.payload = payload]]

\* updateSettings: the read returns.
bgUpdateRead(bs) ==
    [bs EXCEPT !.bg.job.current = bgGetSettings(bs.store),
               !.bg.job.phase = "set"]

\* updateSettings: { ...current, ...updates } is written.
bgUpdateWrite(bs) ==
    LET updated == Merge(bs.bg.job.current, bs.bg.job.payload)
    IN  [bs EXCEPT !.store = <<updated>>,
                   !.bg.job.persisted = <<updated>>,
                   !.bg.job.phase = "query"]

\* The tab ids of a set, in ascending order.
RECURSIVE TabList(_)
TabList(ts) ==
    IF ts = {} THEN << >>
    ELSE LET t == CHOOSE x \in ts : \A y \in ts : x <= y
         IN  <<t>> \o TabList(ts \ {t})

\* broadcastToYouTubeTabs: chrome.tabs.query returns the open tabs.
bgQueryTabs(bs, openTabs) ==
    [bs EXCEPT !.bg.job.openTabs = openTabs,
               !.bg.job.queue = TabList(openTabs),
               !.bg.job.phase = "send"]

\* broadcastToYouTubeTabs: one iteration of the loop; ok tells whether
\* chrome.tabs.sendMessage resolved or threw into the catch.  The first
\* variant leaves the loop on a failure.
bgSentStopping(bs, ok) ==
    LET t == Head(bs.bg.job.queue)
    IN  IF ok
        THEN [bs EXCEPT !.bg.job.queue = Tail(@),
                        !.bg.job.delivered = @ \cup {t}]
        ELSE [bs EXCEPT !.bg.job.queue = << >>,
                        !.bg.job.failed = @ \cup {t}]

bgSent(bs, ok) ==
    LET t == Head(bs.bg.job.queue)
    IN  IF ok
        THEN [bs EXCEPT !.bg.job.queue = Tail(@),
                        !.bg.job.delivered = @ \cup {t}]
        ELSE [bs EXCEPT !.bg.job.queue = Tail(@),
                        !.bg.job.failed = @ \cup {t}]

\* sendResponse({ success: true })
bgRespond(bs) ==
    [bs EXCEPT !.bg.job.resp = <<[success |-> TRUE]>>,
               !.bg.job.phase = "done"]

BgCur == [bg |-> bg, store |-> store]

CommitBg(bs, op, arg, cost) ==
    /\ bg' = bs.bg
    /\ store' = bs.store
    /\ last' = [op |-> op, arg |-> arg, fx |-> NoFx, tab |-> 0]
    /\ steps' = steps + cost
    /\ UNCHANGED <<page, ctl, app, probe, hist, other, popup>>

\* The worker has just started (init has issued the read of
\* initDefaultSettings); one or two tabs are open, their scripts constructed.
InitBg ==
    \E second \in {NoInstance, newInstance(PageV2, TRUE)} :
        LET st == Construct(PageV1, TRUE, << >>)
        IN  /\ page = st.page
            /\ ctl = st.ctl
            /\ app = st.app
            /\ store = << >>
            /\ last = [op |-> "construct", arg |-> 0, fx |-> NoFx, tab |-> 1]
            /\ steps = 0
            /\ probe = NoProbe
            /\ hist = NoHist
            /\ other = second
            /\ popup = NoPopup
            /\ bg = [NoBg EXCEPT !.init = "reading",
                                 !.tabUrl[2] = IF second.open THEN "site"
                                               ELSE "closed"]

BgInitRead ==
    /\ bg.init = "reading"
    /\ CommitBg(bgInitRead(BgCur), "bgInitRead", 0, 0)

\* A write that lands while an UPDATE_SETTINGS handler is in progress or
\* done, and is not one of its own, is noted in its log.
Foreign(b) == [b EXCEPT !.job.foreign = @ \/ b.job.phase # "idle"]

BgInitWrite ==
    /\ bg.init = "writing"
    /\ LET bs == bgInitWrite(BgCur)
       IN  CommitBg([bs EXCEPT !.bg = Foreign(@)], "bgInitWrite", 0, 0)

\* UPDATE_SETTINGS reaches the worker's listener.
BgUpdate(payload) ==
    /\ steps < MaxBgSteps
    /\ bg.job.phase \in {"idle", "done"}
    /\ CommitBg(bgReceiveUpdate(BgCur, payload), "bgUpdate", payload, 1)

BgUpdateRead ==
    /\ bg.job.phase = "get"
    /\ CommitBg(bgUpdateRead(BgCur), "bgUpdateRead", 0, 0)

BgUpdateWrite ==
    /\ bg.job.phase = "set"
    /\ CommitBg(bgUpdateWrite(BgCur), "bgUpdateWrite", 0, 0)

BgQueryTabs ==
    /\ bg.job.phase = "query"
    /\ CommitBg(bgQueryTabs(BgCur, {t \in Tabs : TabOpen(t)}),
                "bgQueryTabs", 0, 0)

\* chrome.tabs.sendMessage to the next tab: its listener handles
\* UPDATE_SETTINGS and answers, or there is no listener and the promise
\* rejects.
BgSend ==
    /\ bg.job.phase = "send"
    /\ Len(bg.job.queue) > 0
    /\ LET t == Head(bg.job.queue)
           message == [type |-> "UPDATE_SETTINGS", payload |-> bg.job.payload]
       IN  IF TabCur(t).app.listening
           THEN /\ TabApply(t, handleMessage(TabCur(t), message),
                            "bgDeliver", message.payload)
                /\ bg' = bgSent(BgCur, TRUE).bg
           ELSE /\ bg' = bgSent(BgCur, FALSE).bg
                /\ last' = [op |-> "bgSendFailed", arg |-> message.payload,
                            fx |-> NoFx, tab |-> t]
                /\ UNCHANGED <<page, ctl, app, other, store>>
    /\ UNCHANGED <<steps, probe, hist, popup>>

BgRespond ==
    /\ bg.job.phase = "send"
    /\ Len(bg.job.queue) = 0
    /\ CommitBg(bgRespond(BgCur), "bgRespond", 0, 0)

\* GET_SETTINGS reaches the worker's listener and is answered.
BgGetSettings ==
    /\ steps < MaxBgSteps
    /\ bg' = bg
    /\ store' = store
    /\ last' = [op |-> "bgGetSettings", arg |-> 0,
                fx |-> [NoFx EXCEPT
                          !.resp = <<[settings |-> bgGetSettings(store)]>>],
                tab |-> 0]
    /\ steps' = steps + 1
    /\ UNCHANGED <<page, ctl, app, probe, hist, other, popup>>

\* SET_SPEED reaches the listener of tab t directly.
BgTabRequest(t, s) ==
    /\ steps < MaxBgSteps
    /\ TabOpen(t)
    /\ TabCur(t).app.listening
    /\ TabApply(t, handleMessage(TabCur(t),
                                 [type |-> "SET_SPEED", payload |-> s]),
                "SET_SPEED", s)
    /\ bg' = Foreign(bg)
    /\ steps' = steps + 1
    /\ UNCHANGED <<probe, hist, popup>>

NextBg ==
    \/ \E t \in Tabs : TabLoadSettings(t)
    \/ \E t \in Tabs : TabUpdateSettingsResume(t)
    \/ \E t \in Tabs, s \in BgTabSpeeds : BgTabRequest(t, s)
    \/ BgInitRead
    \/ BgInitWrite
    \/ \E payload \in BgUpdatePayloads : BgUpdate(payload)
    \/ BgUpdateRead
    \/ BgUpdateWrite
    \/ BgQueryTabs
    \/ BgSend
    \/ BgRespond
    \/ BgGetSettings

SpecBg == InitBg /\ [][NextBg]_vars

----------------------------------------------------------------------------
(* Messages of other kinds sent to the background, and the popup's own     *)
(* sends, with a foreground tab that may or may not be a page of the site. *)

MaxFwdSteps == 2      \* requests and tab switches per behaviour under SpecFwd

FwdMessages ==
    {[type |-> "GET_SPEED", payload |-> 0],
     [type |-> "SET_SPEED", payload |-> 150],
     [type |-> "PING", payload |-> 0]}

\* handleMessage, default case: the message is kept while chrome.tabs.query
\* is awaited.
bgForwardReceive(bs, message) ==
    [bs EXCEPT !.bg.fwd = [NoFwd EXCEPT !.phase = "query",
                                        !.message = message]]

\* chrome.tabs.query({active, currentWindow}) returned [tab]; id 0 stands
\* for no tab or a tab without an id.
bgForwardQueried(bs, tab) ==
    IF tab.id # 0 /\ SiteUrl(tab.url)
    THEN [bs EXCEPT !.bg.fwd.phase = "send", !.bg.fwd.target = tab.id]
    ELSE [bs EXCEPT !.bg.fwd.phase = "done",
                    !.bg.fwd.resp = <<[error |-> "No active YouTube tab"]>>]

\* chrome.tabs.sendMessage resolved with the instance's response.  The
\* first variant answers the sender on its own.
bgForwardAnsweredSuccess(bs, response) ==
    [bs EXCEPT !.bg.fwd.phase = "done",
               !.bg.fwd.resp = <<[success |-> TRUE]>>]

bgForwardAnswered(bs, response) ==
    [bs EXCEPT !.bg.fwd.phase = "done", !.bg.fwd.resp = response]

\* chrome.tabs.sendMessage rejected: the catch clause answers.  The first
\* variant answers null.
bgForwardFailedNull(bs) ==
    [bs EXCEPT !.bg.fwd.phase = "done", !.bg.fwd.resp = << >>]

bgForwardFailed(bs) ==
    [bs EXCEPT !.bg.fwd.phase = "done",
               !.bg.fwd.resp =
                   <<[error |-> "Failed to communicate with content script"]>>]

\* The foreground tab is any of three, tab 1 shows a page of the site or a
\* page of another site whose URL mentions it, tab 2 a page of the site.
InitFwd ==
    \E a \in {0} \cup Tabs, url1 \in {"site", "offMention"} :
        LET st == Construct(PageV1, TRUE, << >>)
        IN  /\ page = st.page
            /\ ctl = st.ctl
            /\ app = st.app
            /\ store = << >>
            /\ last = [op |-> "construct", arg |-> 0, fx |-> NoFx, tab |-> 1]
            /\ steps = 0
            /\ probe = NoProbe
            /\ hist = NoHist
            /\ other = newInstance(PageV2, TRUE)
            /\ popup = NoPopup
            /\ bg = [NoBg EXCEPT !.active = a, !.tabUrl[1] = url1]

\* A message of another kind reaches the worker's listener.
FwdReceive(message) ==
    /\ steps < MaxFwdSteps
    /\ bg.fwd.phase \in {"idle", "done"}
    /\ CommitBg(bgForwardReceive(BgCur, message),
                "bgForward", message.payload, 1)

FwdQuery ==
    /\ bg.fwd.phase = "query"
    /\ LET tab == IF bg.active \in Tabs
                  THEN [id |-> bg.active, url |-> bg.tabUrl[bg.active]]
                  ELSE [id |-> 0, url |-> "off"]
       IN  CommitBg(bgForwardQueried(BgCur, tab), "bgForwardQuery", 0, 0)

\* chrome.tabs.sendMessage(tab.id, message): the listener of that tab
\* handles the message and answers, or there is none.
FwdSend ==
    /\ bg.fwd.phase = "send"
    /\ LET t == bg.fwd.target
           message == bg.fwd.message
       IN  IF Receiver(t)
           THEN LET st == handleMessage(TabCur(t), message)
                    b == bgForwardAnswered(BgCur, st.fx.resp).bg
                IN  /\ TabApply(t, st, message.type, message.payload)
                    /\ bg' = [b EXCEPT !.fwd.got =
                                 Append(@, [tab |-> t, message |-> message,
                                            response |-> st.fx.resp])]
           ELSE /\ bg' = bgForwardFailed(BgCur).bg
                /\ last' = [op |-> "bgForwardFailed", arg |-> message.payload,
                            fx |-> NoFx, tab |-> t]
                /\ UNCHANGED <<page, ctl, app, other, store>>
    /\ UNCHANGED <<steps, probe, hist, popup>>

\* The user brings another tab to the foreground.
SwitchTab(t) ==
    /\ steps < MaxFwdSteps
    /\ t # bg.active
    /\ CommitBg([BgCur EXCEPT !.bg.active = t], "switchTab", t, 1)

NextFwd ==
    \/ \E t \in Tabs : TabLoadSettings(t)
    \/ \E message \in FwdMessages : FwdReceive(message)
    \/ FwdQuery
    \/ FwdSend
    \/ \E t \in {0} \cup Tabs : SwitchTab(t)
    \/ PopupOpen
    \/ PopupLoadStorage
    \/ PopupLoadSpeed
    \/ \E s \in PopupSpeeds : PopupSetSpeed(s)
    \/ PopupDeliver

SpecFwd == InitFwd /\ [][NextFwd]_vars

----------------------------------------------------------------------------
(* The background's map of tab to identity, with tabs that navigate within *)
(* the site, leave it and close.                                           *)

MaxTrackSteps == 4    \* navigations and tab events per behaviour under SpecTrack

\* handleMessage, case 'VIDEO_CHANGED', from the tab with id tabId; the
\* payload is the VideoInfo object the content script sent, which is truthy.
bgVideoChanged(bs, tabId, payload) ==
    IF tabId # 0
    THEN [bs EXCEPT !.bg.tabVideoInfo = Put(@, tabId, payload)]
    ELSE bs

\* tabVideoInfo.delete(tabId)
Without(map, key) == [k \in DOMAIN map \ {key} |-> map[k]]

\* chrome.tabs.onRemoved listener
bgTabRemoved(bs, tabId) ==
    [bs EXCEPT !.bg.tabVideoInfo = Without(@, tabId)]

\* chrome.tabs.onUpdated listener; url is the tab's new URL, which is also
\* changeInfo.url.
bgTabUpdated(bs, tabId, url) ==
    IF ~SiteUrl(url)
    THEN [bs EXCEPT !.bg.tabVideoInfo = Without(@, tabId)]
    ELSE bs

\* Two tabs on content pages of the site, their scripts constructed.
InitTrack ==
    LET st == Construct(PageV1, TRUE, << >>)
    IN  /\ page = st.page
        /\ ctl = st.ctl
        /\ app = st.app
        /\ store = << >>
        /\ last = [op |-> "construct", arg |-> 0, fx |-> NoFx, tab |-> 1]
        /\ steps = 0
        /\ probe = NoProbe
        /\ hist = NoHist
        /\ other = newInstance(PageV2, TRUE)
        /\ popup = NoPopup
        /\ bg = NoBg

\* Tab t navigates within the site: its page changes in place, the worker's
\* onUpdated listener sees a URL of the site, the URL watcher runs and the
\* site dispatches 'yt-navigate-finish'; a VIDEO_CHANGED the content script sends is in
\* flight to the worker.
TrackNavigate(t, loc) ==
    /\ steps < MaxTrackSteps
    /\ TabOpen(t)
    /\ TabCur(t).app.watching
    /\ loc # TabCur(t).page.loc
    /\ LET st == handleVideoChange(urlObserverCallback(
                     [TabCur(t) EXCEPT !.page.loc = loc]))
           b == bgTabUpdated(BgCur, t, "site").bg
       IN  /\ TabApply(t, st, "navigate", loc.videoId)
           /\ bg' = IF st.fx.sent # None
                    THEN [b EXCEPT !.inflight[t] =
                                       Append(@, getVideoInfo(st)),
                                   !.reported[t] = st.fx.sent]
                    ELSE b
    /\ steps' = steps + 1
    /\ UNCHANGED <<probe, hist, popup>>

\* The oldest VIDEO_CHANGED of tab t reaches the worker's listener.
TrackDeliver(t) ==
    /\ Len(bg.inflight[t]) > 0
    /\ LET bs == bgVideoChanged(BgCur, t, Head(bg.inflight[t]))
       IN  CommitBg([bs EXCEPT !.bg.inflight[t] = Tail(@)],
                    "VIDEO_CHANGED", t, 0)

\* Tab t navigates to a page of another site: its content script is gone
\* and the worker's onUpdated listener runs.
TrackLeave(t, url) ==
    /\ steps < MaxTrackSteps
    /\ TabOpen(t)
    /\ LET bs == bgTabUpdated(BgCur, t, url)
       IN  CommitBg([bs EXCEPT !.bg.tabUrl[t] = url], "tabLeave", t, 1)

\* Tab t closes: the worker's onRemoved listener runs.
TrackClose(t) ==
    /\ steps < MaxTrackSteps
    /\ bg.tabUrl[t] # "closed"
    /\ LET bs == bgTabRemoved(BgCur, t)
       IN  CommitBg([bs EXCEPT !.bg.tabUrl[t] = "closed"], "tabClose", t, 1)

NextTrack ==
    \/ \E t \in Tabs : TabLoadSettings(t)
    \/ \E t \in Tabs, loc \in Locations : TrackNavigate(t, loc)
    \/ \E t \in Tabs : TrackDeliver(t)
    \/ \E t \in Tabs, url \in {"off", "offMention"} : TrackLeave(t, url)
    \/ \E t \in Tabs : TrackClose(t)

SpecTrack == InitTrack /\ [][NextTrack]_vars

----------------------------------------------------------------------------
(* Element replacement by a script of the page, step by step.  A           *)
(* MutationObserver callback is a microtask: it runs when the script that  *)
(* changed the document has returned.  Until then page.pending is TRUE,    *)
(* and the only code of the extension that can run is a listener of an     *)
(* event that script dispatches itself.                                    *)

MaxReplaceSteps == 4  \* requests and page scripts per behaviour under SpecReplace

ReplaceSpeeds == {150}
ReplaceRequests ==
    [type : {"GET_SPEED"}, payload : {0}]
    \cup [type : {"SET_SPEED"}, payload : ReplaceSpeeds]

InitReplace ==
    LET st == Construct(PageV1, TRUE, << >>)
    IN  /\ page = st.page
        /\ ctl = st.ctl
        /\ app = st.app
        /\ store = st.store
        /\ last = [op |-> "construct", arg |-> 0, fx |-> NoFx]
        /\ steps = 0
        /\ probe = NoProbe
        /\ hist = NoHist
        /\ other = NoInstance
        /\ popup = NoPopup
        /\ bg = NoBg

ReplaceLoadSettings ==
    /\ ~page.pending
    /\ LoadSettings

ReplaceRequest(message) ==
    /\ steps < MaxReplaceSteps
    /\ ~page.pending
    /\ app.listening
    /\ Commit(handleMessage(Cur, message), message.type, message.payload, 1)

\* A script of the page starts: it moves to another content (or stays) and
\* replaces the media element by a new one.
ReplaceElement(loc) ==
    /\ steps < MaxReplaceSteps
    /\ ~page.pending
    /\ Len(page.elems) < MaxElems
    /\ Commit([Cur EXCEPT !.page.loc = loc,
                          !.page.elems = Append(@, InitialPlaybackRate),
                          !.page.attached = Len(page.elems) + 1,
                          !.page.pending = TRUE],
              "replace", loc.videoId, 1)

\* The same script dispatches 'yt-navigate-finish' on the document; the
\* coordinator's listener runs inside the dispatch.
ReplaceDispatchFinish ==
    /\ page.pending
    /\ last.op = "replace"
    /\ app.watching
    /\ Commit(handleVideoChange(Cur), "yt-navigate-finish", 0, 0)

\* The script returns; the MutationObserver callbacks run in registration
\* order.
ReplaceObserved ==
    /\ page.pending
    /\ Commit(urlObserverCallback(videoObserverCallback(
                  [Cur EXCEPT !.page.pending = FALSE])),
              "observed", 0, 0)

NextReplace ==
    \/ ReplaceLoadSettings
    \/ \E message \in ReplaceRequests : ReplaceRequest(message)
    \/ \E loc \in Locations : ReplaceElement(loc)
    \/ ReplaceDispatchFinish
    \/ ReplaceObserved

SpecReplace == InitReplace /\ [][NextReplace]_vars

----------------------------------------------------------------------------
(* Initialisation on its own, with the fairness the browser gives: the     *)
(* callback of a storage read that was issued is called, and a timer that  *)
(* was set fires.  The media element may appear at any moment, or never.   *)

InitStart ==
    \E loc \in {PageV1, PageHome}, hasVideo \in BOOLEAN,
       persisted \in {<< >>, <<RememberedRecord>>} :
        LET st == Construct(loc, hasVideo, persisted)
        IN  /\ page = st.page
            /\ ctl = st.ctl
            /\ app = st.app
            /\ store = st.store
            /\ last = [op |-> "construct", arg |-> 0, fx |-> NoFx]
            /\ steps = 0
            /\ probe = NoProbe
            /\ hist = NoHist
            /\ other = NoInstance
            /\ popup = NoPopup
            /\ bg = NoBg

NextStart ==
    \/ LoadSettings
    \/ WaitTimer
    \/ VideoAttach

SpecStart ==
    /\ InitStart
    /\ [][NextStart]_vars
    /\ WF_vars(LoadSettings)
    /\ WF_vars(WaitTimer)

----------------------------------------------------------------------------
(* One page instance whose smart-speed timer and widget are switched by    *)
(* requests, with the timer's ticks.                                       *)

MaxSmartSteps == 4    \* requests per behaviour under SpecSmart

SmartUpdatePayloads ==
    {[smartSpeedEnabled |-> TRUE], [smartSpeedEnabled |-> FALSE],
     [showOverlay |-> TRUE], [showOverlay |-> FALSE]}

SmartRequests ==
    [type : {"TOGGLE_OVERLAY"}, payload : {0}]
    \cup [type : {"SET_SPEED"}, payload : {60, 150}]
    \cup [type : {"UPDATE_SETTINGS"}, payload : SmartUpdatePayloads]

\* The record an earlier session left with smart speed on and the widget
\* off.
SmartRecord ==
    [DEFAULT_SETTINGS EXCEPT !.smartSpeedEnabled = TRUE,
                             !.showOverlay = FALSE]

InitSmart ==
    \E hasVideo \in BOOLEAN, persisted \in {<< >>, <<SmartRecord>>} :
        LET st == Construct(PageV1, hasVideo, persisted)
        IN  /\ page = st.page
            /\ ctl = st.ctl
            /\ app = st.app
            /\ store = st.store
            /\ last = [op |-> "construct", arg |-> 0, fx |-> NoFx]
            /\ steps = 0
            /\ probe = NoProbe
            /\ hist = NoHist
            /\ other = NoInstance
            /\ popup = NoPopup
            /\ bg = NoBg

SmartRequest(message) ==
    /\ steps < MaxSmartSteps
    /\ app.listening
    /\ CommitSeq(handleMessage(Cur, message), message.type, message.payload,
                 Shift(hist, message.type, message.payload))

\* An interval timer set by startSmartSpeed fires.
SmartTick ==
    /\ ctl.timers > 0
    /\ Commit(smartSpeedTick(Cur), "tick", 0, 0)

NextSmart ==
    \/ LoadSettings
    \/ WaitTimer
    \/ \E message \in SmartRequests : SmartRequest(message)
    \/ UpdateSettingsResume
    \/ SmartTick
    \/ \E r \in NativeRates : NativeRateChange(r)

SpecSmart == InitSmart /\ [][NextSmart]_vars

----------------------------------------------------------------------------
(* Requests that reach the tab at any moment of the content script's life, *)
(* also before init has attached the message listener.                     *)

MaxEarlySteps == 3    \* requests and page events per behaviour under SpecEarly

EarlyRequests ==
    [type : {"GET_SETTINGS", "GET_SPEED"}, payload : {0}]
    \cup [type : {"SET_SPEED"}, payload : {150}]
    \cup [type : {"UPDATE_SETTINGS"}, payload : {[rememberVideo |-> FALSE]}]

InitEarly ==
    \E hasVideo \in BOOLEAN,
       persisted \in {<< >>, <<RememberedRecord>>, <<SmartRecord>>} :
        LET st == Construct(PageV1, hasVideo, persisted)
        IN  /\ page = st.page
            /\ ctl = st.ctl
            /\ app = st.app
            /\ store = st.store
            /\ last = [op |-> "construct", arg |-> 0, fx |-> NoFx]
            /\ steps = 0
            /\ probe = NoProbe
            /\ hist = NoHist
            /\ other = NoInstance
            /\ popup = NoPopup
            /\ bg = NoBg

\* A request is sent to the tab.  Without a listener no code of the content
\* script runs and the sender gets no response.
EarlyRequest(message) ==
    /\ steps < MaxEarlySteps
    /\ IF app.listening
       THEN Commit(handleMessage(Cur, message),
                   message.type, message.payload, 1)
       ELSE Commit([Cur EXCEPT !.fx.resp = << >>], "dropped", 0, 1)

\* The media element appears.
EarlyVideoAttach ==
    /\ steps < MaxEarlySteps
    /\ VideoAttach

NextEarly ==
    \/ LoadSettings
    \/ WaitTimer
    \/ UpdateSettingsResume
    \/ EarlyVideoAttach
    \/ \E message \in EarlyRequests : EarlyRequest(message)

SpecEarly == InitEarly /\ [][NextEarly]_vars

----------------------------------------------------------------------------
(* Smart speed left on, with a media element: the timer keeps firing       *)
(* (setInterval), while the site's control and SET_SPEED change the rate   *)
(* a bounded number of times.                                              *)

InitSettle ==
    /\ InitSmart
    /\ store = <<SmartRecord>>
    /\ page.attached # NoElement

NextSettle ==
    \/ LoadSettings
    \/ SmartTick
    \/ \E r \in {25, 125} : NativeRateChange(r)
    \/ \E s \in {60, 150, 700} :
          SmartRequest([type |-> "SET_SPEED", payload |-> s])

SpecSettle ==
    /\ InitSettle
    /\ [][NextSettle]_vars
    /\ WF_vars(LoadSettings)
    /\ WF_vars(SmartTick)

----------------------------------------------------------------------------
(* Properties *)

Settings == app.settings
Info == getVideoInfo(Cur)
HasIdentity == Info.videoId # None

\* The rate getSpeed() reports.
LiveRate ==
    IF ctl.video # NoElement THEN page.elems[ctl.video] ELSE ctl.currentSpeed

ValidSpeed(x) == x >= MIN_SPEED /\ x <= MAX_SPEED /\ x % 10 = 0

Resolved == last.fx.resolved # Undefined

VideoLevelApplies ==
    Settings.rememberVideo /\ Info.videoId \in DOMAIN Settings.videoSpeeds

ChannelLevelApplies ==
    Settings.rememberChannel
    /\ Info.channelId \in DOMAIN Settings.channelSpeeds

MemoryOf(S) == <<S.videoSpeeds, S.channelSpeeds, S.defaultSpeed>>

\* C1: whenever resolution runs with rememberVideo enabled and a
\* videoSpeeds entry for the current contentId, the speed handed to the
\* driver is that entry.
C1_VideoLevelWins ==
    (Resolved /\ VideoLevelApplies)
        => last.fx.resolved = Settings.videoSpeeds[Info.videoId]

\* C2: whenever resolution runs, the video level does not apply, and
\* rememberChannel is enabled with a channelSpeeds entry for the current
\* publisherId, the resolved speed is that channel entry.
C2_ChannelLevelNext ==
    (Resolved /\ ~VideoLevelApplies /\ ChannelLevelApplies)
        => last.fx.resolved = Settings.channelSpeeds[Info.channelId]

\* C3: whenever resolution runs and neither memory level applies, the
\* resolved speed is profiles[currentProfile] for a named profile and
\* defaultSpeed for 'custom'.
C3_FallbackLevels ==
    (Resolved /\ ~VideoLevelApplies /\ ~ChannelLevelApplies)
        => last.fx.resolved =
              IF Settings.currentProfile \in {"study", "chill", "review"}
              THEN Settings.profiles[Settings.currentProfile]
              ELSE Settings.defaultSpeed

C3_Witness ==
    /\ Resolved /\ ~VideoLevelApplies /\ ~ChannelLevelApplies
    /\ Settings.currentProfile = "review"
    /\ last.fx.resolved = 175
    /\ last.fx.applied = 180

\* C4: a step in which resolution runs (at initialize or on navigation)
\* leaves the persisted record as it was and leaves videoSpeeds,
\* channelSpeeds and defaultSpeed of the snapshot as loaded.
C4_ResolutionKeepsMemory ==
    [][ (last'.fx.resolved # Undefined) =>
          /\ store' = store
          /\ MemoryOf(app'.settings) =
               MemoryOf(IF last'.op = "loadSettings"
                        THEN IF Len(store) > 0 THEN store[1]
                             ELSE DEFAULT_SETTINGS
                        ELSE app.settings) ]_vars

C4_Witness ==
    /\ Resolved
    /\ last.op = "yt-navigate-finish"
    /\ last.fx.applied # Undefined
    /\ last.fx.notified > 0
    /\ DOMAIN Settings.videoSpeeds # {}
    /\ Info.videoId \notin DOMAIN Settings.videoSpeeds

\* C5: handling SET_SPEED s on a page with identity (v, p) sets
\* videoSpeeds[v] to s when rememberVideo is enabled and leaves videoSpeeds
\* unchanged otherwise, likewise channelSpeeds[p] with rememberChannel and
\* defaultSpeed with currentProfile = 'custom', and writes the snapshot to
\* the persisted record.
C5_SetSpeedRemembers ==
    [][ (last'.op = "SET_SPEED" /\ HasIdentity) =>
          LET S == app.settings
              T == app'.settings
              s == last'.arg
          IN  /\ IF S.rememberVideo
                 THEN Get(T.videoSpeeds, Info.videoId) = s
                 ELSE T.videoSpeeds = S.videoSpeeds
              /\ IF S.rememberChannel
                 THEN Get(T.channelSpeeds, Info.channelId) = s
                 ELSE T.channelSpeeds = S.channelSpeeds
              /\ IF S.currentProfile = "custom"
                 THEN T.defaultSpeed = s
                 ELSE T.defaultSpeed = S.defaultSpeed
              /\ store' = <<T>> ]_vars

C5_Witness ==
    /\ last.op = "SET_SPEED" /\ last.arg = 137
    /\ Info = [videoId |-> "v1", channelId |-> "p1"]
    /\ Settings.rememberVideo /\ Settings.rememberChannel
    /\ Settings.currentProfile = "custom"
    /\ Settings.videoSpeeds["v1"] = 137
    /\ Settings.channelSpeeds["p1"] = 137
    /\ Settings.defaultSpeed = 137
    /\ store = <<Settings>>

AllStoredValid(S) ==
    /\ \A v \in DOMAIN S.videoSpeeds : ValidSpeed(S.videoSpeeds[v])
    /\ \A c \in DOMAIN S.channelSpeeds : ValidSpeed(S.channelSpeeds[c])
    /\ ValidSpeed(S.defaultSpeed)

\* C6: every value in videoSpeeds, channelSpeeds and defaultSpeed, in the
\* snapshot and in the persisted record, and every rate applied to the
\* media element is in [0.1, 5.0] and a multiple of 0.1.
C6_SpeedsValid ==
    /\ AllStoredValid(Settings)
    /\ Len(store) > 0 => AllStoredValid(store[1])
    /\ last.fx.applied # Undefined => ValidSpeed(last.fx.applied)

\* C7: for every speed input, the value setSpeed writes to the media
\* element is in [0.1, 5.0] and a multiple of 0.1.
C7_AppliedRateValid ==
    probe.output # Undefined => ValidSpeed(probe.output)

C7_Witness ==
    /\ last.op = "setSpeed"
    /\ probe.input > MAX_SPEED
    /\ probe.output = MAX_SPEED

\* C8: after a rate change made on the page (keyboard shortcut, widget
\* button, slider or preset, the site's own control) on a page with an
\* identity, the enabled memory tables hold the new rate and the record is
\* persisted.
C8_PageRateChangeRemembered ==
    (/\ last.op \in {"keyboard", "widgetStep", "widgetSet", "native"}
     /\ ctl.video # NoElement
     /\ HasIdentity)
        => /\ Settings.rememberVideo
                => Get(Settings.videoSpeeds, Info.videoId) = LiveRate
           /\ Settings.rememberChannel
                => Get(Settings.channelSpeeds, Info.channelId) = LiveRate
           /\ store = <<Settings>>

\* C9: after SET_SPEED, INCREASE_SPEED, DECREASE_SPEED or SET_PROFILE with
\* a named profile has changed the live speed, the enabled memory-table
\* entries for the current identity equal the new live speed.
C9_WriteRequestsRemember ==
    (/\ \/ last.op \in {"SET_SPEED", "INCREASE_SPEED", "DECREASE_SPEED"}
        \/ last.op = "SET_PROFILE" /\ last.arg # "custom"
     /\ last.fx.applied # Undefined
     /\ HasIdentity)
        => /\ Settings.rememberVideo
                => Get(Settings.videoSpeeds, Info.videoId) = LiveRate
           /\ Settings.rememberChannel
                => Get(Settings.channelSpeeds, Info.channelId) = LiveRate

\* C10: after SET_SPEED, INCREASE_SPEED or DECREASE_SPEED is handled, the
\* snapshot and the persisted record have currentProfile = 'custom'.
C10_DirectAdjustmentIsCustom ==
    last.op \in {"SET_SPEED", "INCREASE_SPEED", "DECREASE_SPEED"}
        => /\ Settings.currentProfile = "custom"
           /\ Len(store) > 0 => store[1].currentProfile = "custom"

\* C11: after SET_PROFILE with a named profile p is handled on a page with a
\* media element, the live rate equals profiles[p], currentProfile = p and
\* the persisted record carries that currentProfile.
C11_ProfileRateApplied ==
    (/\ last.op = "SET_PROFILE"
     /\ last.arg \in {"study", "chill", "review"}
     /\ ctl.video # NoElement)
        => /\ LiveRate = Settings.profiles[last.arg]
           /\ Settings.currentProfile = last.arg
           /\ Len(store) > 0
           /\ store[1].currentProfile = last.arg

\* C12: when navigation resolves the speed for a content that has no
\* videoSpeeds entry, both remember flags being on, and a speed was
\* remembered earlier on another content of the same publisher (its video
\* entry and the publisher's channel entry hold the same value), the
\* resolved speed is that channel entry.
C12_SamePublisherNavigation ==
    (/\ Resolved
     /\ last.op \in {"yt-navigate-finish", "videoAttach", "domMutation"}
     /\ Settings.rememberVideo /\ Settings.rememberChannel
     /\ Info.videoId \notin DOMAIN Settings.videoSpeeds
     /\ Info.channelId \in DOMAIN Settings.channelSpeeds
     /\ \E v \in DOMAIN Settings.videoSpeeds :
            Settings.videoSpeeds[v] = Settings.channelSpeeds[Info.channelId])
        => last.fx.resolved = Settings.channelSpeeds[Info.channelId]

\* C13: for the navigation in progress, once a detection mechanism has
\* fired: if the recomputed contentId exists and differs from the one tracked
\* when the navigation happened, resolution has run once and one
\* VIDEO_CHANGED carrying the new identity has been sent, however many
\* mechanisms fired; otherwise nothing was resolved and nothing sent.
C13_OneNotificationPerNavigation ==
    hist.fired # {} =>
        LET changed == Info.videoId # None /\ Info.videoId # hist.tracked
        IN  /\ hist.sent = IF changed THEN 1 ELSE 0
            /\ hist.resolved = hist.sent
            /\ changed => /\ hist.sentId = Info.videoId
                          /\ app.currentVideoId = Info.videoId

C13_Witness ==
    /\ hist.fired = {"url", "finish"}
    /\ hist.tracked # None
    /\ hist.sent = 1
    /\ hist.sentId = Info.videoId

\* C14: handling SET_SPEED with the same speed immediately after SET_SPEED
\* with that speed, on the same identity, changes neither the live rate, nor
\* the settings snapshot, nor the persisted record.
C14_SetSpeedIdempotent ==
    [][(/\ last.op = "SET_SPEED"
        /\ last'.op = "SET_SPEED"
        /\ last'.arg = last.arg
        /\ steps' = steps + 1)
           => /\ LiveRate' = LiveRate
              /\ app'.settings = app.settings
              /\ store' = store]_vars

C14_Witness ==
    /\ last.op = "SET_SPEED"
    /\ hist.cur.op = "SET_SPEED"
    /\ hist.prev.op = "SET_SPEED"
    /\ hist.prev.arg = last.arg
    /\ last.fx.applied = LiveRate
    /\ last.fx.remembered
    /\ Info.videoId \in DOMAIN store[1].videoSpeeds

\* C15: when GET_SETTINGS is handled right after UPDATE_SETTINGS with a
\* partial record on the same instance, the record returned has the supplied
\* values in exactly the supplied fields and in every other field the value
\* the snapshot had before the update.
C15_UpdateThenGetSettings ==
    (/\ last.op = "GET_SETTINGS"
     /\ hist.cur.op = "GET_SETTINGS"
     /\ hist.prev.op = "UPDATE_SETTINGS")
        => LET got == last.fx.resp[1].settings
           IN  /\ DOMAIN got = DOMAIN hist.prev.pre
               /\ \A k \in DOMAIN got :
                     got[k] = IF k \in DOMAIN hist.prev.arg
                              THEN hist.prev.arg[k]
                              ELSE hist.prev.pre[k]

C15_Witness ==
    /\ last.op = "GET_SETTINGS"
    /\ hist.cur.op = "GET_SETTINGS"
    /\ hist.prev.op = "UPDATE_SETTINGS"
    /\ hist.prev.arg = [smartSpeedEnabled |-> TRUE, defaultSpeed |-> 150]
    /\ hist.prev.pre # DEFAULT_SETTINGS
    /\ last.fx.resp[1].settings.defaultSpeed = 150
    /\ last.fx.resp[1].settings # hist.prev.pre

\* The keys of the two memory tables of the persisted record.
StoredKeys(s) ==
    IF Len(s) > 0
    THEN [video |-> DOMAIN s[1].videoSpeeds,
          channel |-> DOMAIN s[1].channelSpeeds]
    ELSE [video |-> {}, channel |-> {}]

\* C16: with two page instances that each remember speeds and receive
\* UPDATE_SETTINGS, every key of videoSpeeds and of channelSpeeds in the
\* persisted record is still a key of the persisted record after every step.
C16_MemoryNeverPruned ==
    [][/\ StoredKeys(store).video \subseteq StoredKeys(store').video
       /\ StoredKeys(store).channel \subseteq StoredKeys(store').channel]_vars

\* The two memory tables of the persisted record.
StoredTables(s) ==
    IF Len(s) > 0
    THEN [video |-> s[1].videoSpeeds, channel |-> s[1].channelSpeeds]
    ELSE [video |-> EmptyMap, channel |-> EmptyMap]

\* C17: a popup action that changes a toggle or selects a profile leaves
\* videoSpeeds and channelSpeeds of the persisted record as they were, also
\* when a page instance has persisted entries after the popup loaded.
C17_PopupKeepsMemoryTables ==
    [][last'.op \in {"popupToggle", "popupSetProfile"}
          => StoredTables(store') = StoredTables(store)]_vars

\* C18: the write of the defaults that background activation performs lands
\* only on a store that holds no record, also when another component wrote
\* between the activation's read and its write.
C18_DefaultsOnlyWhenAbsent ==
    [][last'.op = "bgInitWrite" => Len(store) = 0]_vars

\* The settings snapshot of tab t.
SnapshotOf(t) == TabCur(t).app.settings

\* The supplied fields of a partial record have the supplied values in S.
Carries(S, partial) == \A k \in DOMAIN partial : S[k] = partial[k]

\* C19: while the background handles UPDATE_SETTINGS: no instance has been
\* sent the update before the merged record was written to the store; when
\* {success: true} is returned the loop has tried every tab that was open,
\* each one delivered or failed, a failure not ending the round; and every
\* instance the update was delivered to has the supplied values in its
\* snapshot.
C19_PersistThenBroadcast ==
    LET j == bg.job
    IN  /\ (j.delivered \cup j.failed # {})
              => /\ Len(j.persisted) > 0
                 /\ j.persisted[1] = Merge(j.current, j.payload)
        /\ (Len(j.resp) > 0)
              => /\ j.phase = "done"
                 /\ j.queue = << >>
                 /\ j.delivered \cup j.failed = j.openTabs
                 /\ j.openTabs = {t \in Tabs : TabOpen(t)}
        /\ \A t \in j.delivered : Carries(SnapshotOf(t), j.payload)

C19_Witness ==
    /\ bg.job.phase = "done"
    /\ bg.job.failed = {1}
    /\ bg.job.delivered = {2}
    /\ bg.job.resp = <<[success |-> TRUE]>>
    /\ Carries(store[1], bg.job.payload)

\* C20: when GET_SETTINGS is answered by the background after an
\* UPDATE_SETTINGS has completed (broadcast and the receiving instances'
\* writes included) and no other request wrote to the store meanwhile, the
\* record returned is the record the store held before the update with the
\* supplied fields replaced, also when open instances hold stale snapshots.
C20_BackgroundRoundTrip ==
    (/\ last.op = "bgGetSettings"
     /\ bg.job.phase = "done"
     /\ ~bg.job.foreign)
        => last.fx.resp[1].settings = Merge(bg.job.current, bg.job.payload)

\* C21: when the background has answered a message of another kind: at most
\* one instance received it; an instance that received it is the one of the
\* tab that was queried as foreground tab, it received the message as sent,
\* and the answer to the sender is that instance's response; when no
\* instance received it the answer is an error record.
C21_ForwardToActiveInstance ==
    LET f == bg.fwd
    IN  f.phase = "done" =>
            /\ Len(f.got) <= 1
            /\ Len(f.got) = 1 =>
                  /\ f.got[1].tab = f.target
                  /\ f.got[1].message = f.message
                  /\ f.resp = f.got[1].response
            /\ Len(f.got) = 0 => "error" \in DOMAIN f.resp[1]

C21_Witness ==
    /\ bg.fwd.phase = "done"
    /\ Len(bg.fwd.got) = 1
    /\ bg.fwd.got[1].tab = 2
    /\ bg.fwd.message.type = "SET_SPEED"
    /\ bg.fwd.resp = <<[success |-> TRUE]>>
    /\ other.page.elems[1] = 150
    /\ page.elems[1] = 100

\* C22: a message that finds no qualifying page instance resolves to a null
\* response on both paths: the popup's send (at load, or of a later
\* request) and the background's forward.
C22_NoInstanceGivesNull ==
    /\ last.op \in {"popupLoadSpeed", "dropped"} => last.fx.resp = << >>
    /\ (bg.fwd.phase = "done" /\ Len(bg.fwd.got) = 0) => bg.fwd.resp = << >>

\* C22 as amended: the popup's send resolves to null; the background's
\* forward answers with an error record, 'No active YouTube tab' when the
\* foreground tab has no id or no URL of the site, 'Failed to communicate
\* with content script' when the send to it found no listener.
C22_NoInstanceNullOrErrorRecord ==
    /\ last.op \in {"popupLoadSpeed", "dropped"} => last.fx.resp = << >>
    /\ (bg.fwd.phase = "done" /\ Len(bg.fwd.got) = 0) =>
          bg.fwd.resp =
              IF bg.fwd.target = 0
              THEN <<[error |-> "No active YouTube tab"]>>
              ELSE <<[error |-> "Failed to communicate with content script"]>>

C22_Witness ==
    /\ last.op = "popupLoadSpeed"
    /\ last.fx.resp = << >>
    /\ popup.phase = "ready"
    /\ bg.fwd.phase = "done"
    /\ bg.fwd.target # 0
    /\ Len(bg.fwd.got) = 0
    /\ bg.fwd.resp[1].error = "Failed to communicate with content script"

\* C23: when the popup's GET_SPEED at load got no response, the speed the
\* popup holds is the defaultSpeed of the settings it loaded from the store.
C23_PopupFallsBackToDefaultSpeed ==
    (last.op = "popupLoadSpeed" /\ popup.phase = "ready")
        => popup.currentSpeed = popup.settings.defaultSpeed

\* C24: the background's map has entries only for tabs that are open on a
\* page of the site, and the entry of such a tab, once every VIDEO_CHANGED
\* it sent has arrived, is the identity it reported last.
C24_MapOnlyOpenSiteTabs ==
    /\ \A t \in DOMAIN bg.tabVideoInfo : bg.tabUrl[t] = "site"
    /\ \A t \in Tabs :
          (/\ bg.tabUrl[t] = "site"
           /\ bg.reported[t] # None
           /\ bg.inflight[t] = << >>)
              => /\ t \in DOMAIN bg.tabVideoInfo
                 /\ bg.tabVideoInfo[t].videoId = bg.reported[t]

\* C25: setting a rate while no media element is present still updates the
\* cached rate to the clamped value, also for the rate resolved at the end
\* of initialisation, and an element that appears later receives the cached
\* rate.
C25_CacheUpdatedWithoutElement ==
    /\ (last.op = "SET_SPEED" /\ ctl.video = NoElement)
          => ctl.currentSpeed = ClampRound(last.arg)
    /\ (/\ last.op \in {"loadSettings", "waitTimer"}
        /\ last.fx.resolved # Undefined
        /\ ctl.video = NoElement)
          => ctl.currentSpeed = ClampRound(last.fx.resolved)

\* C26: when the media element is replaced and nothing else resolves a rate
\* in that step, the new element plays at the rate the old one had, not at
\* its own initial rate.
C26_ReplacementKeepsRate ==
    [][(/\ last'.op = "videoAttach"
        /\ ctl.video # NoElement
        /\ last'.fx.resolved = Undefined)
          => (/\ ctl'.video = page'.attached
              /\ page'.elems[page'.attached] = page.elems[ctl.video])]_vars

\* C27: a rate set while the driver's handle is detached and a new element
\* is attached, the watcher not having run yet, is applied to the attached
\* element.
C27_DetachedHandleSetsAttachedElement ==
    (/\ page.pending
     /\ last.op = "yt-navigate-finish"
     /\ last.fx.applied # Undefined)
        => page.elems[page.attached] = last.fx.applied

\* The direction of the step the last action took, 0 when it was no step.
StepDirection(l) ==
    CASE l.op = "INCREASE_SPEED" -> 1
      [] l.op = "DECREASE_SPEED" -> 0 - 1
      [] l.op \in {"keyboard", "widgetStep"} -> l.arg
      [] OTHER -> 0

\* C28: a step from the current rate r leaves the rate at clamp(r + 0.1) or
\* clamp(r - 0.1), so 5.0 stays under an increase and 0.1 under a decrease,
\* and the speed INCREASE_SPEED / DECREASE_SPEED answer is the live rate
\* after the step.
C28_StepIsClampedTenth ==
    [][StepDirection(last') # 0
          => /\ LiveRate' = ClampRound(LiveRate + StepDirection(last') * SPEED_STEP)
             /\ last'.op \in {"INCREASE_SPEED", "DECREASE_SPEED"}
                   => last'.fx.resp = <<[speed |-> LiveRate']>>]_vars

\* C29: a listener registered with the driver before a step is called with
\* the new rate in every step that applies a rate to the element or in
\* which the element reports a change of rate made outside the driver,
\* also on an element located after a replacement; the widget's display,
\* which its listener writes, then shows the live rate.
C29_ListenersSeeEveryChange ==
    [][(/\ app.overlay.exists
        /\ app'.overlay.exists
        /\ \/ last'.fx.applied # Undefined
           \/ last'.op = "native")
          => /\ last'.fx.notified >= 1
             /\ app'.overlay.display = LiveRate']_vars

C29_Witness ==
    /\ last.op = "native"
    /\ app.overlay.exists
    /\ Len(page.elems) = 2
    /\ last.fx.notified >= 1
    /\ app.overlay.display = page.elems[2]
    /\ page.elems[2] # page.elems[1]

\* C30: initialisation terminates: the wait for a media element retries at
\* most maxRetries (10) times, and whether or not an element ever appears
\* the coordinator eventually has its message listener attached and is
\* Ready, and stays so.
C30_InitializeTerminates ==
    /\ [](app.initRetries <= maxRetries)
    /\ <>[](app.phase = "Ready" /\ app.listening)

C30_Witness ==
    /\ app.phase = "Ready"
    /\ app.listening
    /\ app.initRetries = maxRetries
    /\ ctl.video = NoElement
    /\ page.attached = NoElement

\* C31: at most one smart-speed timer exists at any time, a timer exists
\* exactly when the driver holds its handle, and no timer exists when the
\* driver's feature flag is off, nor when the settings have the feature off
\* and every update was carried out.
C31_AtMostOneTimer ==
    /\ ctl.timers <= 1
    /\ ctl.timers = (IF ctl.smartSpeedInterval THEN 1 ELSE 0)
    /\ ~ctl.smartSpeedEnabled => ctl.timers = 0
    /\ (/\ app.phase = "Ready"
        /\ app.pending = << >>
        /\ ~app.settings.smartSpeedEnabled) => ctl.timers = 0

C31_Witness ==
    /\ last.op = "updateSettingsResume"
    /\ hist.cur.op = "UPDATE_SETTINGS"
    /\ hist.prev.op = "UPDATE_SETTINGS"
    /\ hist.cur.arg = [smartSpeedEnabled |-> TRUE]
    /\ hist.prev.arg = [smartSpeedEnabled |-> TRUE]
    /\ app.pending = << >>
    /\ ctl.timers = 1

\* C32: request handling is serialized: when a request is handled, every
\* effect of the requests before it has taken place, so no part of an
\* earlier UPDATE_SETTINGS (widget toggle, smart-speed re-arm) is still
\* outstanding.
C32_RequestsSerialized ==
    [][(steps' = steps + 1 /\ last'.op # "native")
           => app.pending = << >>]_vars

\* C33: once an UPDATE_SETTINGS that changes showOverlay to b is carried
\* out, the widget is present and visible if and only if b is true.
C33_WidgetFollowsShowOverlay ==
    (/\ last.op = "updateSettingsResume"
     /\ app.pending = << >>
     /\ hist.cur.op = "UPDATE_SETTINGS"
     /\ "showOverlay" \in DOMAIN hist.cur.arg
     /\ hist.cur.pre.showOverlay # hist.cur.arg.showOverlay)
        => ((app.overlay.exists /\ app.overlay.isVisible)
               <=> hist.cur.arg.showOverlay)

\* C34: after SET_SPEED is handled on a page with an identity, each enabled
\* memory-table entry of that identity holds the rate the driver reports.
C34_StoredEqualsReportedRate ==
    (last.op = "SET_SPEED" /\ HasIdentity)
        => /\ Settings.rememberVideo
                => Get(Settings.videoSpeeds, Info.videoId) = LiveRate
           /\ Settings.rememberChannel
                => Get(Settings.channelSpeeds, Info.channelId) = LiveRate

\* C35: the message listener is attached only when init has loaded the
\* settings and finished the media wait; a request that arrives earlier
\* changes nothing and gets no response; and the settings GET_SETTINGS
\* answers are the stored record over the defaults whenever the store held
\* a record, never the bare defaults.
C35_NoRequestBeforeLoad ==
    [][/\ app'.listening => app'.phase = "Ready"
       /\ (/\ steps' = steps + 1
           /\ last'.op # "videoAttach"
           /\ app.phase # "Ready")
             => /\ last'.op = "dropped"
                /\ last'.fx.resp = << >>
                /\ <<page, ctl, app, store>>' = <<page, ctl, app, store>>
       /\ (last'.op = "GET_SETTINGS" /\ Len(store) > 0)
             => last'.fx.resp =
                   <<[settings |-> Merge(DEFAULT_SETTINGS, store[1])]>>]_vars

C35_Witness ==
    /\ last.op = "GET_SETTINGS"
    /\ store = <<RememberedRecord>>
    /\ last.fx.resp = <<[settings |-> RememberedRecord]>>
    /\ app.initRetries = maxRetries

\* How far the live rate is from 1.0.
FarFromNormal(rate) == IF rate >= 100 THEN rate - 100 ELSE 100 - rate

\* A timer tick that finds smart speed on, an element present and the live
\* rate more than 0.2 away from 1.0.
AdjustingTick ==
    /\ last'.op = "tick"
    /\ ctl.smartSpeedEnabled
    /\ ctl.video # NoElement
    /\ FarFromNormal(LiveRate) > 20

\* C36 as stated: every such tick moves the live rate by exactly 0.1 toward
\* 1.0.
C36_TickMovesExactlyTenth ==
    [][AdjustingTick
          => LiveRate' = (IF LiveRate < 100 THEN LiveRate + 10
                          ELSE LiveRate - 10)]_vars

\* C36, amended: every such tick moves the live rate to the rate 0.1 nearer
\* to 1.0, rounded to one decimal, which is nearer to 1.0 than before, and
\* writes neither the settings nor the store; so the rate eventually stays
\* within 0.2 of 1.0.
C36_TickMovesRoundedTenth ==
    /\ [][AdjustingTick
            => /\ LiveRate' = ClampRound(IF LiveRate < 100 THEN LiveRate + 10
                                         ELSE LiveRate - 10)
               /\ FarFromNormal(LiveRate') < FarFromNormal(LiveRate)
               /\ app'.settings = app.settings
               /\ store' = store]_vars
    /\ <>[](FarFromNormal(LiveRate) <= 20)

C36_Witness ==
    /\ last.op = "tick"
    /\ last.fx.applied = 40
    /\ LiveRate = 40
    /\ ctl.timers = 1

====
